---- MODULE Spec2Model ----
(***************************************************************************)
(* Model of the rate-limit planner of image-gen-infra                      *)
(* (src/src/util/tps.ts, calculateTPS) and of the place that calls it      *)
(* (src/src/lib/image-gen-stack.ts, "API GATEWAY - THROTTLING").           *)
(* and of the upload-URL function (lambdas/get-upload-url/main.js) behind  *)
(* the POST /upload method of the API.                                     *)
(*                                                                         *)
(* Numbers.  A JavaScript number is an IEEE-754 double, and the limits     *)
(* the planner returns depend on how the doubles round (Math.floor of a    *)
(* product that is one unit in the last place below an integer).  The      *)
(* model therefore computes on doubles: a positive double is the pair      *)
(* <<mantissa, exponent>> of a 53-bit mantissa and a binary exponent, the  *)
(* mantissa a natural number written in limbs of 14 bits, least            *)
(* significant first, and *, / and + round the exact result to the         *)
(* nearest double, ties to even.  A negative double has a third component, *)
(* and NaN and the two infinities are values of their own.  All finite     *)
(* numbers of the model are far from the overflow and underflow            *)
(* thresholds.                                                             *)
(***************************************************************************)
EXTENDS Integers, Sequences, FiniteSets, TLC

VARIABLES throttlingConfig, enableFirewall, apiLimits, usagePlan,
          wafIPRateLimit, outputs, pc,
          request, processEnv, response, presignedPosts, upc,
          siteProps, viewerFunction, viewerRequest, viewerResult, vpc,
          invocation, dpc, terminal, commands, exitStatus, tempDir

stackVars ==
    <<throttlingConfig, enableFirewall, apiLimits, usagePlan, wafIPRateLimit,
      outputs, pc>>

uploadVars == <<request, processEnv, response, presignedPosts, upc>>

viewerVars == <<siteProps, viewerFunction, viewerRequest, viewerResult, vpc>>

deployVars == <<invocation, dpc, terminal, commands, exitStatus, tempDir>>

siteVars == <<viewerVars, deployVars>>

vars == <<stackVars, uploadVars, siteVars>>

----------------------------------------------------------------------------
(* Bounds of the explored inputs *)

MaxWorkers == 10
MaxImagesPerSession == 3

----------------------------------------------------------------------------
(* Natural numbers of any size, as sequences of limbs *)


LimbBits == 14
Base == 16384
MantissaBits == 53

RECURSIVE Pow2(_)
Pow2(n) == IF n = 0 THEN 1 ELSE 2 * Pow2(n - 1)

RECURSIVE BitLen(_)
BitLen(n) == IF n = 0 THEN 0 ELSE 1 + BitLen(n \div 2)

RECURSIVE BStrip(_)
BStrip(a) ==
    IF a = << >> THEN a
    ELSE IF a[Len(a)] = 0 THEN BStrip(SubSeq(a, 1, Len(a) - 1)) ELSE a

BFromInt(n) == BStrip(<<n % Base, (n \div Base) % Base, n \div (Base * Base)>>)

BLimb(a, i) == IF i <= Len(a) THEN a[i] ELSE 0

RECURSIVE BCmpFrom(_, _, _)
BCmpFrom(a, b, i) ==
    IF i = 0 THEN 0
    ELSE IF a[i] # b[i] THEN (IF a[i] < b[i] THEN -1 ELSE 1)
    ELSE BCmpFrom(a, b, i - 1)

BCmp(a, b) ==
    IF Len(a) # Len(b) THEN (IF Len(a) < Len(b) THEN -1 ELSE 1)
    ELSE BCmpFrom(a, b, Len(a))

RECURSIVE BAddFrom(_, _, _, _)
BAddFrom(a, b, i, carry) ==
    IF i > Len(a) /\ i > Len(b)
    THEN (IF carry = 0 THEN << >> ELSE <<carry>>)
    ELSE LET t == BLimb(a, i) + BLimb(b, i) + carry
         IN  <<t % Base>> \o BAddFrom(a, b, i + 1, t \div Base)

BAdd(a, b) == BAddFrom(a, b, 1, 0)

RECURSIVE BSubFrom(_, _, _, _)
BSubFrom(a, b, i, borrow) ==
    IF i > Len(a) THEN << >>
    ELSE LET t == a[i] - BLimb(b, i) - borrow
         IN  IF t < 0 THEN <<t + Base>> \o BSubFrom(a, b, i + 1, 1)
                      ELSE <<t>> \o BSubFrom(a, b, i + 1, 0)

BSub(a, b) == BStrip(BSubFrom(a, b, 1, 0))

RECURSIVE BMulSmallFrom(_, _, _, _)
BMulSmallFrom(a, k, i, carry) ==
    IF i > Len(a) THEN (IF carry = 0 THEN << >> ELSE <<carry>>)
    ELSE LET t == a[i] * k + carry
         IN  <<t % Base>> \o BMulSmallFrom(a, k, i + 1, t \div Base)

BMulSmall(a, k) == IF k = 0 THEN << >> ELSE BMulSmallFrom(a, k, 1, 0)

RECURSIVE BMul(_, _)
BMul(a, b) ==
    IF b = << >> \/ a = << >> THEN << >>
    ELSE BAdd(BMulSmall(a, b[1]), BStrip(<<0>> \o BMul(a, Tail(b))))

Zeros(n) == [i \in 1..n |-> 0]

BShl(a, n) ==
    IF a = << >> THEN a
    ELSE Zeros(n \div LimbBits) \o BMulSmall(a, Pow2(n % LimbBits))

RECURSIVE BDivSmallFrom(_, _, _, _)
\* limbs i..1 of floor(a / k), rem the remainder carried from above
BDivSmallFrom(a, k, i, rem) ==
    IF i = 0 THEN << >>
    ELSE LET t == rem * Base + a[i]
         IN  BDivSmallFrom(a, k, i - 1, t % k) \o <<t \div k>>

BShr(a, n) ==
    LET w == n \div LimbBits
        d == IF w >= Len(a) THEN << >> ELSE SubSeq(a, w + 1, Len(a))
    IN  BStrip(BDivSmallFrom(d, Pow2(n % LimbBits), Len(d), 0))

BBitLen(a) ==
    IF a = << >> THEN 0 ELSE LimbBits * (Len(a) - 1) + BitLen(a[Len(a)])

BIsOdd(a) == a # << >> /\ a[1] % 2 = 1

RECURSIVE BQuotDigit(_, _, _)
BQuotDigit(b, r, q) ==
    IF q = 0 THEN 0
    ELSE IF BCmp(BMulSmall(b, q), r) > 0 THEN BQuotDigit(b, r, q - 1) ELSE q

RECURSIVE BDivFrom(_, _, _, _, _)
\* <<quotient, remainder>> of (r * Base^i + the low i limbs of a) / b, the
\* limbs of the quotient found so far in q; the top limb of b has 14 bits
BDivFrom(a, b, i, r, q) ==
    IF i = 0 THEN <<q, r>>
    ELSE LET r1 == BStrip(<<a[i]>> \o r)
             n == Len(b)
             top == BLimb(r1, n + 1) * Base + BLimb(r1, n)
             est == top \div b[n]
             d == BQuotDigit(b, r1, IF est > Base - 1 THEN Base - 1 ELSE est)
         IN  BDivFrom(a, b, i - 1, BSub(r1, BMulSmall(b, d)), <<d>> \o q)

\* <<floor(a / b), a - b * floor(a / b)>> for b > 0
BDivMod(a, b) ==
    LET s == LimbBits - BitLen(b[Len(b)])
        a1 == BShl(a, s)
        b1 == BShl(b, s)
        d == BDivFrom(a1, b1, Len(a1), << >>, << >>)
    IN  <<BStrip(d[1]), BShr(d[2], s)>>

----------------------------------------------------------------------------
(* Doubles: <<mantissa, exponent>> with a mantissa of exactly 53 bits, or zero *)

FZero == <<(<< >>), 0>>

\* the double nearest to m * 2^e (ties to even); sticky: a nonzero rest below m
RoundPack(m, sticky, e) ==
    IF m = << >> THEN FZero
    ELSE LET n == BBitLen(m)
         IN  IF n <= MantissaBits THEN <<BShl(m, MantissaBits - n), e - (MantissaBits - n)>>
             ELSE LET k == n - MantissaBits
                      q == BShr(m, k)
                      r == BSub(m, BShl(q, k))
                      c == BCmp(r, BShl(<<1>>, k - 1))
                      up == c > 0 \/ (c = 0 /\ (sticky \/ BIsOdd(q)))
                      q1 == IF up THEN BAdd(q, <<1>>) ELSE q
                  IN  IF BBitLen(q1) > MantissaBits THEN <<BShr(q1, 1), e + k + 1>>
                      ELSE <<q1, e + k>>

FromInt(n) == RoundPack(BFromInt(n), FALSE, 0)

\* the product, quotient (y > 0), sum and order of doubles >= 0
MulMagnitudes(x, y) ==
    IF x = FZero \/ y = FZero THEN FZero
    ELSE RoundPack(BMul(x[1], y[1]), FALSE, x[2] + y[2])

DivMagnitudes(x, y) ==
    IF x = FZero THEN FZero
    ELSE LET d == BDivMod(BShl(x[1], MantissaBits + 2), y[1])
         IN  RoundPack(d[1], d[2] # << >>, x[2] - y[2] - (MantissaBits + 2))

AddMagnitudes(x, y) ==
    IF x = FZero THEN y
    ELSE IF y = FZero THEN x
    ELSE IF x[2] >= y[2]
         THEN RoundPack(BAdd(BShl(x[1], x[2] - y[2]), y[1]), FALSE, y[2])
         ELSE RoundPack(BAdd(BShl(y[1], y[2] - x[2]), x[1]), FALSE, x[2])

LessMagnitudes(x, y) ==
    IF y = FZero THEN FALSE
    ELSE IF x = FZero THEN TRUE
    ELSE x[2] < y[2] \/ (x[2] = y[2] /\ BCmp(x[1], y[1]) < 0)

\* x - y for doubles x > y >= 0
SubMagnitudes(x, y) ==
    IF y = FZero THEN x
    ELSE IF x[2] >= y[2]
         THEN RoundPack(BSub(BShl(x[1], x[2] - y[2]), y[1]), FALSE, y[2])
         ELSE RoundPack(BSub(x[1], BShl(y[1], y[2] - x[2])), FALSE, x[2])

NaN == <<"NaN">>

Infinity == <<"Infinity">>

NegInfinity == <<"-Infinity">>

\* the completion of an expression that threw: every operation on it
\* completes the same way
Thrown == <<"Error">>

\* a double >= 0 (+0 included)
IsMagnitude(x) == Len(x) = 2

\* the sign bit of a number that is not NaN
Negative(x) == Len(x) = 3 \/ x = NegInfinity

\* the number without its sign
Magnitude(x) ==
    IF Len(x) = 3 THEN <<x[1], x[2]>>
    ELSE IF x = NegInfinity THEN Infinity
    ELSE x

\* the magnitude a, or Infinity, with the sign
Signed(negative, a) ==
    IF ~negative THEN a
    ELSE IF a = Infinity THEN NegInfinity
    ELSE <<a[1], a[2], -1>>

NegZero == Signed(TRUE, FZero)

\* -x
Negate(x) == IF x = NaN \/ x = Thrown THEN x ELSE Signed(~Negative(x), Magnitude(x))

MulSigned(negative, a, b) ==
    IF a = Infinity \/ b = Infinity
    THEN IF a = FZero \/ b = FZero THEN NaN ELSE Signed(negative, Infinity)
    ELSE Signed(negative, MulMagnitudes(a, b))

\* x * y
FMul(x, y) ==
    IF IsMagnitude(x) /\ IsMagnitude(y) THEN MulMagnitudes(x, y)
    ELSE IF x = Thrown \/ y = Thrown THEN Thrown
    ELSE IF x = NaN \/ y = NaN THEN NaN
    ELSE MulSigned(Negative(x) # Negative(y), Magnitude(x), Magnitude(y))

DivSigned(negative, a, b) ==
    IF a = Infinity
    THEN IF b = Infinity THEN NaN ELSE Signed(negative, Infinity)
    ELSE IF b = Infinity THEN Signed(negative, FZero)
    ELSE IF b = FZero
         THEN IF a = FZero THEN NaN ELSE Signed(negative, Infinity)
    ELSE Signed(negative, DivMagnitudes(a, b))

\* a division that signals a zero divisor
FDivRaising(x, y) ==
    IF IsMagnitude(x) /\ IsMagnitude(y) /\ y # FZero THEN DivMagnitudes(x, y)
    ELSE IF x = Thrown \/ y = Thrown THEN Thrown
    ELSE IF x = NaN \/ y = NaN THEN NaN
    ELSE IF Magnitude(y) = FZero THEN Thrown
    ELSE DivSigned(Negative(x) # Negative(y), Magnitude(x), Magnitude(y))

\* x / y
FDiv(x, y) ==
    IF IsMagnitude(x) /\ IsMagnitude(y) /\ y # FZero THEN DivMagnitudes(x, y)
    ELSE IF x = Thrown \/ y = Thrown THEN Thrown
    ELSE IF x = NaN \/ y = NaN THEN NaN
    ELSE DivSigned(Negative(x) # Negative(y), Magnitude(x), Magnitude(y))

\* the sum of two finite numbers of opposite signs
AddOpposite(x, y) ==
    IF LessMagnitudes(Magnitude(x), Magnitude(y))
    THEN Signed(Negative(y), SubMagnitudes(Magnitude(y), Magnitude(x)))
    ELSE IF LessMagnitudes(Magnitude(y), Magnitude(x))
    THEN Signed(Negative(x), SubMagnitudes(Magnitude(x), Magnitude(y)))
    ELSE FZero

AddSigned(x, y) ==
    IF Magnitude(x) = Infinity
    THEN IF Magnitude(y) = Infinity /\ x # y THEN NaN ELSE x
    ELSE IF Magnitude(y) = Infinity THEN y
    ELSE IF Negative(x) = Negative(y)
    THEN Signed(Negative(x), AddMagnitudes(Magnitude(x), Magnitude(y)))
    ELSE AddOpposite(x, y)

\* x + y
FAdd(x, y) ==
    IF IsMagnitude(x) /\ IsMagnitude(y) THEN AddMagnitudes(x, y)
    ELSE IF x = Thrown \/ y = Thrown THEN Thrown
    ELSE IF x = NaN \/ y = NaN THEN NaN
    ELSE AddSigned(x, y)

\* a < b for magnitudes or Infinity
LessExtended(a, b) ==
    IF a = Infinity THEN FALSE
    ELSE IF b = Infinity THEN TRUE
    ELSE LessMagnitudes(a, b)

LessSigned(x, y) ==
    IF Negative(x) /\ ~Negative(y)
    THEN ~(Magnitude(x) = FZero /\ Magnitude(y) = FZero)
    ELSE IF ~Negative(x) /\ Negative(y) THEN FALSE
    ELSE IF Negative(x) THEN LessExtended(Magnitude(y), Magnitude(x))
    ELSE LessExtended(Magnitude(x), Magnitude(y))

\* x < y
FLess(x, y) ==
    IF IsMagnitude(x) /\ IsMagnitude(y) THEN LessMagnitudes(x, y)
    ELSE IF x = Thrown \/ y = Thrown THEN FALSE
    ELSE IF x = NaN \/ y = NaN THEN FALSE
    ELSE LessSigned(x, y)

\* the double a decimal literal n/d denotes
Lit(n, d) == FDiv(FromInt(n), FromInt(d))

One == FromInt(1)

Hundred == FromInt(100)

\* the integer part of m * 2^e as a natural
BFloor(x) ==
    IF x = FZero THEN << >>
    ELSE IF x[2] >= 0 THEN BShl(x[1], x[2]) ELSE BShr(x[1], -x[2])

FromNat(b) == RoundPack(b, FALSE, 0)

\* the floor of a double >= 0
FloorMagnitude(x) == FromNat(BFloor(x))

\* the floor of a finite number below zero, or of -0
FloorNegative(a) ==
    IF FloorMagnitude(a) = a THEN Signed(TRUE, a)
    ELSE Signed(TRUE, AddMagnitudes(FloorMagnitude(a), FromInt(1)))

\* Math.floor
MathFloor(x) ==
    IF IsMagnitude(x) THEN FloorMagnitude(x)
    ELSE IF Len(x) = 3 THEN FloorNegative(Magnitude(x))
    ELSE x

\* x is a whole number
IsInteger(x) == MathFloor(x) = x

\* the least whole number not below x
Ceiling(x) == IF IsInteger(x) THEN x ELSE FAdd(MathFloor(x), One)

\* the integer nearest to 100 * x, the larger one on a tie
Cents(x) ==
    IF x = FZero THEN << >>
    ELSE LET t == BMulSmall(x[1], 100)
         IN  IF x[2] >= 0 THEN BShl(t, x[2])
             ELSE LET k == -x[2]
                      q == BShr(t, k)
                      r == BSub(t, BShl(q, k))
                  IN  IF BCmp(r, BShl(<<1>>, k - 1)) >= 0
                      THEN BAdd(q, <<1>>) ELSE q

\* toFixed(2) cutting the digits after the second instead of rounding
ToFixed2Truncating(x) ==
    FDiv(FromNat(BFloor(<<BMulSmall(x[1], 100), x[2]>>)), Hundred)

\* Number(x.toFixed(2)) for a double >= 0: the digits of Cents(x) with the
\* point two places from the right, read back as the nearest double
ToFixed2Magnitude(x) == DivMagnitudes(FromNat(Cents(x)), Hundred)

\* Number(x.toFixed(2)): "NaN", "Infinity" and "-Infinity" read back as
\* themselves, and a number below zero is "-" and the digits of -x
ToFixed2(x) ==
    IF IsMagnitude(x) THEN ToFixed2Magnitude(x)
    ELSE IF Len(x) = 3 /\ x # NegZero
    THEN Signed(TRUE, ToFixed2Magnitude(Magnitude(x)))
    ELSE IF x = NegZero THEN FZero
    ELSE x

\* x <= y
FLeq(x, y) ==
    IF IsMagnitude(x) /\ IsMagnitude(y) THEN ~LessMagnitudes(y, x)
    ELSE IF x = Thrown \/ y = Thrown THEN FALSE
    ELSE IF x = NaN \/ y = NaN THEN FALSE
    ELSE ~LessSigned(y, x)

\* Math.max
MathMax(x, y) ==
    IF IsMagnitude(x) /\ IsMagnitude(y)
    THEN IF LessMagnitudes(x, y) THEN y ELSE x
    ELSE IF x = Thrown \/ y = Thrown THEN Thrown
    ELSE IF x = NaN \/ y = NaN THEN NaN
    ELSE IF LessSigned(x, y) THEN y
    ELSE IF LessSigned(y, x) THEN x
    ELSE IF Negative(x) THEN y ELSE x

\* Math.min
MathMin(x, y) ==
    IF IsMagnitude(x) /\ IsMagnitude(y)
    THEN IF LessMagnitudes(y, x) THEN y ELSE x
    ELSE IF x = Thrown \/ y = Thrown THEN Thrown
    ELSE IF x = NaN \/ y = NaN THEN NaN
    ELSE IF LessSigned(y, x) THEN y
    ELSE IF LessSigned(x, y) THEN x
    ELSE IF Negative(x) THEN x ELSE y

----------------------------------------------------------------------------
(* calculateTPS: parameters and their defaults *)

\* an optional parameter the caller left out
Absent == << >>

DefaultAverageThinkTimeSeconds == 15
DefaultSafetyFactorPercent == 0
DefaultBurstTrafficMultiplier == 2

\* the default added on top of a value the caller passed
OrDefaultAdded(v, d) == IF v = Absent THEN FromInt(d) ELSE FAdd(v, FromInt(d))

\* every optional parameter defaulting to 0
OrDefaultZero(v, d) == IF v = Absent THEN FZero ELSE v

OrDefault(v, d) == IF v = Absent THEN FromInt(d) ELSE v

\* the destructuring of the parameter object, defaults applied
Destructure(params) ==
    [generationTimeSeconds     |-> params.generationTimeSeconds,
     statusPollIntervalSeconds |-> params.statusPollIntervalSeconds,
     imagesPerSession          |-> params.imagesPerSession,
     averageThinkTimeSeconds   |->
         OrDefault(params.averageThinkTimeSeconds, DefaultAverageThinkTimeSeconds),
     safetyFactorPercent       |->
         OrDefault(params.safetyFactorPercent, DefaultSafetyFactorPercent),
     burstTrafficMultiplier    |->
         OrDefault(params.burstTrafficMultiplier, DefaultBurstTrafficMultiplier),
     maxWorkers                |-> params.maxWorkers]

----------------------------------------------------------------------------
(* calculateTPS: the expression of each const of its body *)

\* the quotient taken the wrong way round
StatusChecksPerGenerationInverted(generationTimeSeconds, statusPollIntervalSeconds) ==
    FDiv(statusPollIntervalSeconds, generationTimeSeconds)

StatusChecksPerGeneration(generationTimeSeconds, statusPollIntervalSeconds) ==
    FDiv(generationTimeSeconds, statusPollIntervalSeconds)

SessionDurationSeconds(imagesPerSession, generationTimeSeconds) ==
    FMul(imagesPerSession, generationTimeSeconds)

RunCallsPerSession(imagesPerSession) == imagesPerSession

StatusCallsPerSession(imagesPerSession, statusChecksPerGeneration) ==
    FMul(imagesPerSession, statusChecksPerGeneration)

RunCallsPerSecondPerUser(runCallsPerSession, sessionDurationSeconds) ==
    FDiv(runCallsPerSession, sessionDurationSeconds)

StatusCallsPerSecondPerUser(statusCallsPerSession, sessionDurationSeconds) ==
    FDiv(statusCallsPerSession, sessionDurationSeconds)

CycleTimeSeconds(generationTimeSeconds, averageThinkTimeSeconds) ==
    FAdd(generationTimeSeconds, averageThinkTimeSeconds)

WorkerUtilizationRatio(generationTimeSeconds, cycleTimeSeconds) ==
    FDiv(generationTimeSeconds, cycleTimeSeconds)

MaxSupportedUsers(maxWorkers, workerUtilizationRatio) ==
    FDiv(maxWorkers, workerUtilizationRatio)

\* the quotient taken the wrong way round
WorkerLimitedTPSInverted(maxWorkers, generationTimeSeconds) ==
    MathMax(FDiv(generationTimeSeconds, maxWorkers), One)

\* the worker limit without its floor at 1
WorkerLimitedTPSNoFloor(maxWorkers, generationTimeSeconds) ==
    FDiv(maxWorkers, generationTimeSeconds)

WorkerLimitedTPS(maxWorkers, generationTimeSeconds) ==
    MathMax(FDiv(maxWorkers, generationTimeSeconds), One)

SafetyMultiplier(safetyFactorPercent) ==
    FAdd(One, FDiv(safetyFactorPercent, Hundred))

RunTPS(runCallsPerSecondPerUser, maxSupportedUsers, safetyMultiplier, workerLimitedTPS) ==
    MathMin(FMul(FMul(runCallsPerSecondPerUser, maxSupportedUsers),
                 safetyMultiplier),
            workerLimitedTPS)

StatusTPS(statusCallsPerSecondPerUser, maxSupportedUsers, safetyMultiplier) ==
    FMul(FMul(statusCallsPerSecondPerUser, maxSupportedUsers), safetyMultiplier)

\* the burst without its clamp by the worker limit
RunTPSBurstUnclamped(workerLimitedTPS, runTPS, burstTrafficMultiplier) ==
    FMul(runTPS, burstTrafficMultiplier)

RunTPSBurst(workerLimitedTPS, runTPS, burstTrafficMultiplier) ==
    MathMin(workerLimitedTPS, FMul(runTPS, burstTrafficMultiplier))

\* the multiplier added instead of multiplied
StatusTPSBurstAdded(statusTPS, burstTrafficMultiplier) ==
    FAdd(statusTPS, burstTrafficMultiplier)

StatusTPSBurst(statusTPS, burstTrafficMultiplier) ==
    FMul(statusTPS, burstTrafficMultiplier)

\* the consts c declared so far, with one more
Declare(c, name, value) == c @@ (name :> value)

\* the declarations of the body in its order, each reading the consts before it
ConstStatusChecksPerGeneration(c) ==
    Declare(c, "statusChecksPerGeneration",
            StatusChecksPerGeneration(c.in.generationTimeSeconds,
                c.in.statusPollIntervalSeconds))

ConstSessionDurationSeconds(c) ==
    Declare(c, "sessionDurationSeconds",
            SessionDurationSeconds(c.in.imagesPerSession, c.in.generationTimeSeconds))

ConstRunCallsPerSession(c) ==
    Declare(c, "runCallsPerSession",
            RunCallsPerSession(c.in.imagesPerSession))

ConstStatusCallsPerSession(c) ==
    Declare(c, "statusCallsPerSession",
            StatusCallsPerSession(c.in.imagesPerSession, c.statusChecksPerGeneration))

ConstRunCallsPerSecondPerUser(c) ==
    Declare(c, "runCallsPerSecondPerUser",
            RunCallsPerSecondPerUser(c.runCallsPerSession, c.sessionDurationSeconds))

ConstStatusCallsPerSecondPerUser(c) ==
    Declare(c, "statusCallsPerSecondPerUser",
            StatusCallsPerSecondPerUser(c.statusCallsPerSession, c.sessionDurationSeconds))

ConstCycleTimeSeconds(c) ==
    Declare(c, "cycleTimeSeconds",
            CycleTimeSeconds(c.in.generationTimeSeconds,
                c.in.averageThinkTimeSeconds))

ConstWorkerUtilizationRatio(c) ==
    Declare(c, "workerUtilizationRatio",
            WorkerUtilizationRatio(c.in.generationTimeSeconds, c.cycleTimeSeconds))

ConstMaxSupportedUsers(c) ==
    Declare(c, "maxSupportedUsers",
            MaxSupportedUsers(c.in.maxWorkers, c.workerUtilizationRatio))

ConstWorkerLimitedTPS(c) ==
    Declare(c, "workerLimitedTPS",
            WorkerLimitedTPS(c.in.maxWorkers, c.in.generationTimeSeconds))

ConstSafetyMultiplier(c) ==
    Declare(c, "safetyMultiplier",
            SafetyMultiplier(c.in.safetyFactorPercent))

ConstRunTPS(c) ==
    Declare(c, "runTPS",
            RunTPS(c.runCallsPerSecondPerUser,
                c.maxSupportedUsers,
                c.safetyMultiplier,
                c.workerLimitedTPS))

ConstStatusTPS(c) ==
    Declare(c, "statusTPS",
            StatusTPS(c.statusCallsPerSecondPerUser,
                c.maxSupportedUsers,
                c.safetyMultiplier))

ConstRunTPSBurst(c) ==
    Declare(c, "runTPSBurst",
            RunTPSBurst(c.workerLimitedTPS,
                c.runTPS,
                c.in.burstTrafficMultiplier))

ConstStatusTPSBurst(c) ==
    Declare(c, "statusTPSBurst",
            StatusTPSBurst(c.statusTPS, c.in.burstTrafficMultiplier))

\* the consts of the body
Consts(params) ==
    ConstStatusTPSBurst(ConstRunTPSBurst(
    ConstStatusTPS(ConstRunTPS(
    ConstSafetyMultiplier(
    ConstWorkerLimitedTPS(
    ConstMaxSupportedUsers(ConstWorkerUtilizationRatio(ConstCycleTimeSeconds(
    ConstStatusCallsPerSecondPerUser(ConstRunCallsPerSecondPerUser(
    ConstStatusCallsPerSession(ConstRunCallsPerSession(
    ConstSessionDurationSeconds(ConstStatusChecksPerGeneration(
    [in |-> Destructure(params)])))))))))))))))

\* the limits without their floor at 1
ReturnedLimitsNoFloor(runTPS, statusTPS, runTPSBurst, statusTPSBurst) ==
    [runTPS         |-> ToFixed2(runTPS),
     statusTPS      |-> ToFixed2(statusTPS),
     runTPSBurst    |-> MathFloor(runTPSBurst),
     statusTPSBurst |-> MathFloor(statusTPSBurst)]

\* the burst limits rounded upwards instead of downwards
ReturnedLimitsCeilBurst(runTPS, statusTPS, runTPSBurst, statusTPSBurst) ==
    [runTPS         |-> MathMax(One, ToFixed2(runTPS)),
     statusTPS      |-> MathMax(One, ToFixed2(statusTPS)),
     runTPSBurst    |-> MathMax(One, Ceiling(runTPSBurst)),
     statusTPSBurst |-> MathMax(One, Ceiling(statusTPSBurst))]

\* the limits member of the returned object
ReturnedLimits(runTPS, statusTPS, runTPSBurst, statusTPSBurst) ==
    [runTPS         |-> MathMax(One, ToFixed2(runTPS)),
     statusTPS      |-> MathMax(One, ToFixed2(statusTPS)),
     runTPSBurst    |-> MathMax(One, MathFloor(runTPSBurst)),
     statusTPSBurst |-> MathMax(One, MathFloor(statusTPSBurst))]

\* the returned object
Returned(c) ==
    [limits |->
        ReturnedLimits(c.runTPS, c.statusTPS, c.runTPSBurst, c.statusTPSBurst),
     details |->
        [multipliers |->
            [runCallsPerSecondPerUser    |-> c.runCallsPerSecondPerUser,
             statusCallsPerSecondPerUser |-> c.statusCallsPerSecondPerUser],
         metrics |->
            [statusChecksPerGeneration |-> c.statusChecksPerGeneration,
             sessionDurationSeconds    |-> c.sessionDurationSeconds,
             runCallsPerSession        |-> c.runCallsPerSession,
             statusCallsPerSession     |-> c.statusCallsPerSession,
             cycleTimeSeconds          |-> c.cycleTimeSeconds,
             maxSupportedUsers         |-> c.maxSupportedUsers,
             workerLimitedTPS          |-> c.workerLimitedTPS],
         safetyFactor       |-> c.in.safetyFactorPercent,
         burstTrafficFactor |-> c.in.burstTrafficMultiplier],
     inputs |-> c.in]

\* the outcome of a call that threw instead of returning
Failure == [error |-> "Error"]

\* an expression of the body threw
Abrupt(c) == \E name \in DOMAIN c \ {"in"} : c[name] = Thrown

Completed(c) == IF Abrupt(c) THEN Failure ELSE Returned(c)

calculateTPS(params) == Completed(Consts(params))

----------------------------------------------------------------------------
(* The valid inputs explored *)

GenerationTimes == {FromInt(1), FromInt(3), Lit(1, 10)}

PollIntervals == {FromInt(1), FromInt(5)}

ThinkTimes == {Absent, FromInt(0)}

SafetyFactors == {Absent, FromInt(10)}

BurstMultipliers == {Absent, FromInt(1)}

Workers == {FromInt(w) : w \in 1..MaxWorkers}

ImageCounts == {FromInt(n) : n \in 1..MaxImagesPerSession}

\* the concrete scenario of the specification
Scenario ==
    [generationTimeSeconds     |-> FromInt(30),
     statusPollIntervalSeconds |-> FromInt(5),
     imagesPerSession          |-> FromInt(4),
     averageThinkTimeSeconds   |-> FromInt(15),
     safetyFactorPercent       |-> FromInt(0),
     burstTrafficMultiplier    |-> FromInt(2),
     maxWorkers                |-> FromInt(10)]

\* a worker limit of 3/1.001 = 2.997..., which two decimals round up to 3
SubmitCarryParams ==
    [generationTimeSeconds     |-> Lit(1001, 1000),
     statusPollIntervalSeconds |-> FromInt(1),
     imagesPerSession          |-> FromInt(1),
     averageThinkTimeSeconds   |-> FromInt(0),
     safetyFactorPercent       |-> Absent,
     burstTrafficMultiplier    |-> FromInt(1),
     maxWorkers                |-> FromInt(3)]

\* a poll rate of 2.8 * 1.07 = 2.996, which two decimals round up to 3
PollCarryParams ==
    [generationTimeSeconds     |-> FromInt(5),
     statusPollIntervalSeconds |-> FromInt(1),
     imagesPerSession          |-> FromInt(1),
     averageThinkTimeSeconds   |-> FromInt(2),
     safetyFactorPercent       |-> FromInt(7),
     burstTrafficMultiplier    |-> FromInt(1),
     maxWorkers                |-> FromInt(2)]

ValidGrid ==
    [generationTimeSeconds     : GenerationTimes,
     statusPollIntervalSeconds : PollIntervals,
     imagesPerSession          : ImageCounts,
     averageThinkTimeSeconds   : ThinkTimes,
     safetyFactorPercent       : SafetyFactors,
     burstTrafficMultiplier    : BurstMultipliers,
     maxWorkers                : Workers]

ValidParams == ValidGrid \cup {Scenario, SubmitCarryParams, PollCarryParams}

----------------------------------------------------------------------------
(* Inputs no caller should pass: a zero generation time, poll interval or   *)
(* cycle time, or a negative input                                          *)

Unvalidated(in) ==
    \/ in.generationTimeSeconds = FZero
    \/ in.statusPollIntervalSeconds = FZero
    \/ FAdd(in.generationTimeSeconds, in.averageThinkTimeSeconds) = FZero
    \/ \E name \in DOMAIN in : Negative(in[name])

UnvalidatedGrid ==
    [generationTimeSeconds     : {FZero, One, Negate(One)},
     statusPollIntervalSeconds : {FZero, One, Negate(One)},
     imagesPerSession          : {One, Negate(FromInt(2))},
     averageThinkTimeSeconds   : {Absent, FZero, Negate(One)},
     safetyFactorPercent       : {Absent},
     burstTrafficMultiplier    : {Absent},
     maxWorkers                : {One, Negate(FromInt(4))}]

UnvalidatedParams == {params \in UnvalidatedGrid : Unvalidated(Destructure(params))}

----------------------------------------------------------------------------
(* The constructor of the stack: it is given a throttling configuration and *)
(* the firewall switch, calls calculateTPS once, and applies the plan to    *)
(* the usage plan of the API, to the firewall and to the stack outputs      *)

\* the value of a variable not assigned yet and of a property an object lacks
Undefined == Absent

\* obj[key] of JavaScript
Get(obj, key) == IF key \in DOMAIN obj THEN obj[key] ELSE Undefined

NoPlan == [limits |-> << >>, details |-> << >>, inputs |-> << >>]

\* the grid is explored with the firewall enabled, the named configurations
\* with and without it
FirewallSwitches(config) == IF config \in ValidGrid THEN {TRUE} ELSE BOOLEAN

\* no request to the API while the stack is built
NoTraffic ==
    /\ request = Undefined
    /\ processEnv = Undefined
    /\ response = Undefined
    /\ presignedPosts = << >>
    /\ upc = "idle"

\* no viewer at the website
NoViewer ==
    /\ siteProps = Undefined
    /\ viewerFunction = Undefined
    /\ viewerRequest = Undefined
    /\ viewerResult = Undefined
    /\ vpc = "idle"

\* the deploy script is not running
NotDeploying ==
    /\ invocation = Undefined
    /\ dpc = "idle"
    /\ terminal = << >>
    /\ commands = << >>
    /\ exitStatus = Undefined
    /\ tempDir = "none"

Init ==
    /\ NoTraffic
    /\ NoViewer
    /\ NotDeploying
    /\ throttlingConfig \in ValidParams
    /\ enableFirewall \in FirewallSwitches(throttlingConfig)
    /\ apiLimits = NoPlan
    /\ usagePlan = Undefined
    /\ wafIPRateLimit = Undefined
    /\ outputs = Undefined
    /\ pc = "configured"

\* const apiLimits = calculateTPS(props.throttlingConfig), which returns the
\* plan or ends the constructor with the error thrown
CalculateTPS ==
    /\ pc = "configured"
    /\ \E completion \in {calculateTPS(throttlingConfig)} :
          IF completion = Failure
          THEN pc' = "failed" /\ UNCHANGED apiLimits
          ELSE pc' = "planned" /\ apiLimits' = completion
    /\ UNCHANGED <<throttlingConfig, enableFirewall, usagePlan, wafIPRateLimit,
                   outputs>>
    /\ UNCHANGED <<uploadVars, siteVars>>

\* the smaller of the two limits taken for the whole usage plan
UsagePlanThrottleMin(limits) ==
    [rateLimit  |-> MathMin(limits.runTPS, limits.statusTPS),
     burstLimit |-> MathMin(limits.runTPSBurst, limits.statusTPSBurst)]

\* the throttle of the whole usage plan
UsagePlanThrottle(limits) ==
    [rateLimit  |-> MathMax(limits.runTPS, limits.statusTPS),
     burstLimit |-> MathMax(limits.runTPSBurst, limits.statusTPSBurst)]

\* the throttles of the methods of the API stage
MethodThrottles(limits) ==
    <<[method   |-> "runMethod",
       throttle |-> [rateLimit  |-> limits.runTPS,
                     burstLimit |-> limits.runTPSBurst]],
      [method   |-> "statusMethod",
       throttle |-> [rateLimit  |-> limits.statusTPS,
                     burstLimit |-> limits.statusTPSBurst]],
      [method   |-> "uploadUrlMethod",
       throttle |-> [rateLimit  |-> limits.runTPS,
                     burstLimit |-> limits.runTPSBurst]]>>

\* the usage plan with its API stage
UsagePlan(limits) ==
    [throttle  |-> UsagePlanThrottle(limits),
     apiStages |-> <<[throttle |-> MethodThrottles(limits)]>>]

\* api.addUsagePlan and usagePlan.addApiStage
AddUsagePlan ==
    /\ pc = "planned"
    /\ usagePlan' = UsagePlan(apiLimits.limits)
    /\ pc' = "throttled"
    /\ UNCHANGED <<throttlingConfig, enableFirewall, apiLimits, wafIPRateLimit,
                   outputs>>
    /\ UNCHANGED <<uploadVars, siteVars>>

\* the rate-based rules of the web ACL
WafRules(limits) ==
    <<[name         |-> "IPRateLimitRun",
       priority     |-> 1,
       limit        |-> Get(limits, "ipRunLimit"),
       searchString |-> "/run"],
      [name         |-> "IPRateLimitStatus",
       priority     |-> 2,
       limit        |-> Get(limits, "ipStatusLimit"),
       searchString |-> "/status/"],
      [name         |-> "IPRateLimitUpload",
       priority     |-> 3,
       limit        |-> Get(limits, "ipRunLimit"),
       searchString |-> "/upload"]>>

\* if (props.enableFirewall) { new wafv2.CfnWebACL ... }
IPLevelThrottling ==
    /\ pc = "throttled"
    /\ wafIPRateLimit' =
          IF enableFirewall THEN [rules |-> WafRules(apiLimits.limits)]
          ELSE wafIPRateLimit
    /\ pc' = "firewalled"
    /\ UNCHANGED <<throttlingConfig, enableFirewall, apiLimits, usagePlan,
                   outputs>>
    /\ UNCHANGED <<uploadVars, siteVars>>

\* the values interpolated into the TPSLimits output
TPSLimitsOutput(plan) ==
    [runTPS               |-> plan.limits.runTPS,
     runTPSBurst          |-> plan.limits.runTPSBurst,
     ipRunLimit           |-> Get(plan.limits, "ipRunLimit"),
     ipLimitWindowMinutes |-> Get(plan.inputs, "ipLimitWindowMinutes"),
     statusTPS            |-> plan.limits.statusTPS,
     statusTPSBurst       |-> plan.limits.statusTPSBurst,
     ipStatusLimit        |-> Get(plan.limits, "ipStatusLimit")]

\* the outputs of the firewall and of the limits
Outputs(firewall, webACL, plan) ==
    [WafWebACLArn |->
        IF firewall /\ webACL # Undefined
        THEN "wafIPRateLimit.attrArn"
        ELSE "N/A (Firewall not enabled)",
     MaxConcurrentUsers |-> plan.details.metrics.maxSupportedUsers,
     TPSLimits |-> TPSLimitsOutput(plan)]

\* new cdk.CfnOutput(...) for the firewall and the limits
StackOutputs ==
    /\ pc = "firewalled"
    /\ outputs' = Outputs(enableFirewall, wafIPRateLimit, apiLimits)
    /\ pc' = "done"
    /\ UNCHANGED <<throttlingConfig, enableFirewall, apiLimits, usagePlan,
                   wafIPRateLimit>>
    /\ UNCHANGED <<uploadVars, siteVars>>

Next ==
    \/ CalculateTPS
    \/ AddUsagePlan
    \/ IPLevelThrottling
    \/ StackOutputs

Spec == Init /\ [][Next]_vars

\* the constructor given a configuration nobody validated
UnvalidatedInit ==
    /\ NoTraffic
    /\ NoViewer
    /\ NotDeploying
    /\ throttlingConfig \in UnvalidatedParams
    /\ enableFirewall \in BOOLEAN
    /\ apiLimits = NoPlan
    /\ usagePlan = Undefined
    /\ wafIPRateLimit = Undefined
    /\ outputs = Undefined
    /\ pc = "configured"

UnvalidatedSpec == UnvalidatedInit /\ [][Next]_vars

----------------------------------------------------------------------------
(* The upload-URL function (lambdas/get-upload-url/main.js) behind the      *)
(* POST /upload method of the API.  A JavaScript string is the sequence of  *)
(* its characters; a JavaScript value carries its type.                     *)

JsUndefined == [type |-> "undefined"]

JsNull == [type |-> "null"]

JsString(chars) == [type |-> "string", value |-> chars]

JsNumber(n) == [type |-> "number", number |-> n]

\* an object, as the function from its property names to their values
JsObject(fields) == [type |-> "object", fields |-> fields]

NoFields == [k \in {} |-> JsUndefined]

\* !v
Falsy(v) ==
    \/ v.type \in {"undefined", "null"}
    \/ v.type = "string" /\ v.value = << >>
    \/ v.type = "number" /\ v.number = 0

\* a || b
Or(a, b) == IF Falsy(a) THEN b ELSE a

\* v.key throws a TypeError on null and undefined
ReadThrows(v) == v.type \in {"undefined", "null"}

\* v.key
Property(v, key) ==
    IF v.type = "object" /\ key \in DOMAIN v.fields THEN v.fields[key]
    ELSE JsUndefined

\* v?.key
OptionalProperty(v, key) ==
    IF ReadThrows(v) THEN JsUndefined ELSE Property(v, key)

DecimalDigits == <<"0", "1", "2", "3", "4", "5", "6", "7", "8", "9">>

RECURSIVE DecimalString(_)
\* the decimal digits of the natural number n
DecimalString(n) ==
    IF n < 10 THEN <<DecimalDigits[n + 1]>>
    ELSE DecimalString(n \div 10) \o <<DecimalDigits[(n % 10) + 1]>>

\* `${v}` of a string or of a natural number
TemplateString(v) == IF v.type = "number" THEN DecimalString(v.number) ELSE v.value

RECURSIVE SplitFrom(_, _, _, _)
\* the pieces of chars from position i on, piece being the piece begun
SplitFrom(chars, separator, i, piece) ==
    IF i > Len(chars) THEN <<piece>>
    ELSE IF chars[i] = separator
         THEN <<piece>> \o SplitFrom(chars, separator, i + 1, << >>)
         ELSE SplitFrom(chars, separator, i + 1, Append(piece, chars[i]))

\* chars.split(separator)
Split(chars, separator) == SplitFrom(chars, separator, 1, << >>)

\* list.includes(v)
Includes(list, v) == \E i \in DOMAIN list : list[i] = v

\* a text that JSON.parse reads as value
JsonText(value) == [type |-> "string", syntax |-> "json", json |-> value]

\* a non-empty text that JSON.parse rejects
InvalidText == [type |-> "string", syntax |-> "invalid"]

EmptyText == [type |-> "string", syntax |-> "empty"]

\* event.body || "{}"
BodyOrEmptyObject(body) ==
    IF body.type \in {"undefined", "null"} \/ body = EmptyText
    THEN JsonText(JsObject(NoFields))
    ELSE body

\* JSON.parse(text) throws a SyntaxError
ParseThrows(text) == text.syntax # "json"

\* JSON.parse(text)
JSONParse(text) == text.json

ImagePng == JsString(<<"i", "m", "a", "g", "e", "/", "p", "n", "g">>)

ImageJpeg == JsString(<<"i", "m", "a", "g", "e", "/", "j", "p", "e", "g">>)

ALLOWED_FILE_TYPES == <<ImagePng, ImageJpeg>>

FIVE_MIB_BYTES == 5 * 1024 * 1024

MAX_FILE_SIZE == FIVE_MIB_BYTES

ExpiresSeconds == 180

\* (process.env.ALLOWED_ORIGINS || "*").split(",")
AllowedOrigins(env) ==
    Split(Or(Property(env, "ALLOWED_ORIGINS"), JsString(<<"*">>)).value, ",")

\* event.headers?.origin || event.headers?.Origin || ""
RequestOrigin(event) ==
    Or(Or(OptionalProperty(Property(event, "headers"), "origin"),
          OptionalProperty(Property(event, "headers"), "Origin")),
       JsString(<< >>)).value

\* the origin of the request echoed, whatever the list
MatchedOriginEchoed(event, env) == RequestOrigin(event)

MatchedOrigin(event, env) ==
    IF Includes(AllowedOrigins(env), RequestOrigin(event))
    THEN RequestOrigin(event)
    ELSE AllowedOrigins(env)[1]

CorsHeaderNames ==
    {"Access-Control-Allow-Origin", "Access-Control-Allow-Headers",
     "Access-Control-Allow-Methods", "Access-Control-Allow-Credentials"}

getCorsHeaders(origin) ==
    [h \in CorsHeaderNames |->
        CASE h = "Access-Control-Allow-Origin" -> origin
          [] h = "Access-Control-Allow-Headers" ->
                "Content-Type,Authorization,X-Amz-Date,X-Api-Key,X-Amz-Security-Token,x-amz-content-sha256"
          [] h = "Access-Control-Allow-Methods" ->
                "POST,OPTIONS"
          [] h = "Access-Control-Allow-Credentials" -> "true"]

ApplicationJson ==
    "application/json"

\* a response of the handler: the JSON content type, the CORS headers, and
\* the object whose JSON text is the body
Response(statusCode, origin, body) ==
    [statusCode |-> statusCode,
     headers    |-> ("Content-Type" :> ApplicationJson) @@ getCorsHeaders(origin),
     body       |-> body]

\* a response, and the parameters of the calls of createPresignedPost made
Outcome(returned, calls) == [response |-> returned, presigned |-> calls]

\* an Error object
Error(name, message) ==
    [name |-> name, message |-> message, stack |-> "at exports.handler (main.js)"]

\* what JSON.parse throws, and what reading a property of null throws
ParseError == Error("SyntaxError", "Unexpected token in JSON")

NullReadError == Error("TypeError", "Cannot read properties of null")

\* the promise of createPresignedPost is fulfilled, or rejected with an Error
Fulfilled == [settled |-> "fulfilled"]

Rejected(reason) == [settled |-> "rejected", reason |-> reason]

\* a throw that ends the block, after the calls of createPresignedPost made
Throw(error, calls) == [thrown |-> error, presigned |-> calls]

Threw(attempt) == "thrown" \in DOMAIN attempt

\* !fileName || !fileType
MissingRequiredField(fileName, fileType) == Falsy(fileName) \/ Falsy(fileType)

\* every image type let through
AllowedFileTypeAnyImage(fileType) ==
    /\ fileType.type = "string"
    /\ Len(fileType.value) >= 6
    /\ SubSeq(fileType.value, 1, 6) = <<"i", "m", "a", "g", "e", "/">>

\* ALLOWED_FILE_TYPES.includes(fileType)
AllowedFileType(fileType) == Includes(ALLOWED_FILE_TYPES, fileType)

\* `${Date.now()}-${fileName}`
FileKey(now, fileName) == DecimalString(now) \o <<"-">> \o TemplateString(fileName)

\* an authorization for ten times the size and an hour
PostParamsLoose(env, fileKey, fileType) ==
    [Bucket     |-> Property(env, "S3_BUCKET_NAME"),
     Key        |-> fileKey,
     Conditions |-> [contentLengthRange |-> <<0, 10 * MAX_FILE_SIZE>>,
                     eqContentType      |-> fileType],
     Fields     |-> [ContentType |-> fileType],
     Expires    |-> 3600]

\* const postParams
PostParams(env, fileKey, fileType) ==
    [Bucket     |-> Property(env, "S3_BUCKET_NAME"),
     Key        |-> fileKey,
     Conditions |-> [contentLengthRange |-> <<0, MAX_FILE_SIZE>>,
                     eqContentType      |-> fileType],
     Fields     |-> [ContentType |-> fileType],
     Expires    |-> ExpiresSeconds]

\* what createPresignedPost resolves to: the target of the post and the form
\* fields, which carry the key and the signed conditions
PresignedPost(postParams) ==
    [url    |-> postParams.Bucket,
     fields |-> [ContentType |-> postParams.Fields.ContentType,
                 key         |-> postParams.Key,
                 Policy      |-> [conditions |-> postParams.Conditions,
                                  expires    |-> postParams.Expires]]]

\* the presigned post generated and returned, or its failure caught
IssueUploadUrl(origin, postParams, settlement) ==
    IF settlement.settled = "rejected"
    THEN Throw(settlement.reason, <<postParams>>)
    ELSE Outcome(Response(200, origin,
                          [url     |-> PresignedPost(postParams).url,
                           fields  |-> PresignedPost(postParams).fields,
                           fileKey |-> postParams.Key]),
                 <<postParams>>)

\* the try block from the parsed body on
HandleBody(body, origin, env, now, settlement) ==
    IF ReadThrows(body)
    THEN Throw(NullReadError, << >>)
    ELSE IF MissingRequiredField(Property(body, "fileName"),
                                 Property(body, "fileType"))
    THEN Outcome(Response(400, origin,
                          [error |-> "fileName and fileType are required"]),
                 << >>)
    ELSE IF ~AllowedFileType(Property(body, "fileType"))
    THEN Outcome(Response(400, origin,
                          [error |-> "Invalid file type. Allowed types: image/png, image/jpeg"]),
                 << >>)
    ELSE IssueUploadUrl(origin,
                        PostParams(env,
                                   FileKey(now, Property(body, "fileName")),
                                   Property(body, "fileType")),
                        settlement)

\* the try block
TryBlock(event, origin, env, now, settlement) ==
    IF ParseThrows(BodyOrEmptyObject(Property(event, "body")))
    THEN Throw(ParseError, << >>)
    ELSE HandleBody(JSONParse(BodyOrEmptyObject(Property(event, "body"))),
                    origin, env, now, settlement)

\* no catch block: what the try block threw leaves the handler
CatchNothing(origin, attempt) == attempt

\* the catch block: what the try block threw becomes a response
Catch(origin, attempt) ==
    IF Threw(attempt)
    THEN Outcome(Response(500, origin,
                          [error   |-> "Failed to generate upload URL",
                           details |-> attempt.thrown.message]),
                 attempt.presigned)
    ELSE attempt

\* exports.handler: the response for event, with Date.now() = now and the
\* given settlement of the promise of createPresignedPost
handler(event, env, now, settlement) ==
    Catch(MatchedOrigin(event, env),
          TryBlock(event, MatchedOrigin(event, env), env, now, settlement))

----------------------------------------------------------------------------
(* The POST /upload method of the API (image-gen-stack.ts): the request     *)
(* model, the request validator, and the environment of the function.       *)

ALLOWED_UPLOAD_TYPES == <<ImagePng, ImageJpeg>>

\* "png|jpg|jpeg", as the alternatives of the pattern
ALLOWED_FILE_EXTENSIONS == <<<<"p", "n", "g">>, <<"j", "p", "g">>, <<"j", "p", "e", "g">>>>

\* [a-zA-Z0-9_\-.: ]
FileNameCharacters ==
    {"a", "b", "c", "d", "e", "f", "g", "h", "i", "j", "k", "l", "m", "n",
     "o", "p", "q", "r", "s", "t", "u", "v", "w", "x", "y", "z", "A", "B",
     "C", "D", "E", "F", "G", "H", "I", "J", "K", "L", "M", "N", "O", "P",
     "Q", "R", "S", "T", "U", "V", "W", "X", "Y", "Z", "0", "1", "2", "3",
     "4", "5", "6", "7", "8", "9", "_", "-", ".", ":", " "}

\* ^[a-zA-Z0-9_\-.: ]+\.(png|jpg|jpeg)$
MatchesFileNamePattern(chars) ==
    \E k \in 1..Len(chars) :
        /\ \A i \in 1..k : chars[i] \in FileNameCharacters
        /\ k + 1 <= Len(chars)
        /\ chars[k + 1] = "."
        /\ Includes(ALLOWED_FILE_EXTENSIONS, SubSeq(chars, k + 2, Len(chars)))

\* the schema of UploadRequestModel, as the values it accepts
UploadRequestModel(value) ==
    /\ value.type = "object"
    /\ {"fileName", "fileType"} \subseteq DOMAIN value.fields
    /\ value.fields["fileName"].type = "string"
    /\ MatchesFileNamePattern(value.fields["fileName"].value)
    /\ value.fields["fileType"].type = "string"
    /\ Includes(ALLOWED_UPLOAD_TYPES, value.fields["fileType"])

\* requestModels has a model for "application/json" alone, and a body of
\* another content type is not validated
RequestValidator(contentType, body) ==
    \/ contentType # ApplicationJson
    \/ /\ body.type = "string"
       /\ body.syntax = "json"
       /\ UploadRequestModel(body.json)

DomainName == <<"a", ".", "i", "o">>

SecondaryDomainName == <<"b", ".", "i", "o">>

\* allowedOrigins[0]
allowedOrigin == <<"h", "t", "t", "p", "s", ":", "/", "/">> \o DomainName

BucketName == <<"i", "n", "p", "u", "t", "s">>

\* the environment property of UploadUrlLambda
LambdaEnvironment ==
    JsObject([S3_BUCKET_NAME |-> JsString(BucketName),
              ALLOWED_ORIGIN |-> JsString(allowedOrigin)])

\* the response of the API to a request its validator turns down
GatewayResponse400 ==
    [statusCode |-> 400,
     headers    |-> getCorsHeaders(allowedOrigin),
     body       |-> [message |-> "Invalid request body"]]

----------------------------------------------------------------------------
(* Requests to POST /upload *)

FileNames ==
    {JsString(<<"a", ".", "p", "n", "g">>), JsString(<<"b", " ", "c", ".", "j", "p", "e", "g">>),
     JsString(<<"a", ".", "e", "x", "e">>), JsString(<<"x", "/", "y", ".", "j", "p", "g">>),
     JsString(<< >>), JsNumber(5), JsNull}

FileTypes ==
    {ImagePng, ImageJpeg, JsString(<<"i", "m", "a", "g", "e", "/", "g", "i", "f">>),
     JsString(<< >>), JsNull}

\* the objects with any of the two properties present
RequestObjects ==
    {JsObject([fileName |-> n, fileType |-> t]) : n \in FileNames, t \in FileTypes}
    \cup {JsObject([fileName |-> n]) : n \in FileNames}
    \cup {JsObject([fileType |-> t]) : t \in FileTypes}
    \cup {JsObject(NoFields)}

Bodies ==
    {JsonText(o) : o \in RequestObjects}
    \cup {JsonText(JsNull), JsonText(JsNumber(5)), JsonText(JsString(<<"a", ".", "p", "n", "g">>))}
    \cup {InvalidText, EmptyText, JsUndefined, JsNull}

ContentTypes == {ApplicationJson, "text/plain"}

OtherOrigin == <<"h", "t", "t", "p", "s", ":", "/", "/", "x", ".", "i", "o">>

HeaderSets ==
    {JsUndefined,
     JsObject(NoFields),
     JsObject([origin |-> JsString(allowedOrigin)]),
     JsObject([Origin |-> JsString(<<"h", "t", "t", "p", "s", ":", "/", "/">> \o SecondaryDomainName)]),
     JsObject([origin |-> JsString(OtherOrigin)])}

Environments ==
    {LambdaEnvironment,
     JsObject([S3_BUCKET_NAME  |-> JsString(BucketName),
               ALLOWED_ORIGINS |-> JsString(allowedOrigin \o <<",">> \o <<"h", "t", "t", "p", "s", ":", "/", "/">>
                                            \o SecondaryDomainName)])}

\* Date.now()
Nows == {7, 1234}

\* how the promise of createPresignedPost settles
Settlements ==
    {Fulfilled,
     Rejected(Error("CredentialsProviderError", "Could not load credentials from any providers")),
     Rejected(Error("Error", "Region is missing"))}

\* the response of the API when the invocation of the function fails
GatewayResponse502 ==
    [statusCode |-> 502,
     headers    |-> getCorsHeaders(allowedOrigin),
     body       |-> [message |-> "Internal server error"]]

\* the event of the Lambda proxy integration for a request
Event(req) == JsObject([headers |-> req.headers, body |-> req.body])

\* the stack built for the reference scenario, without firewall
Deployed ==
    /\ throttlingConfig = Scenario
    /\ enableFirewall = FALSE
    /\ apiLimits = calculateTPS(Scenario)
    /\ usagePlan = UsagePlan(calculateTPS(Scenario).limits)
    /\ wafIPRateLimit = Undefined
    /\ outputs = Outputs(FALSE, Undefined, calculateTPS(Scenario))
    /\ pc = "done"

UploadInit ==
    /\ Deployed
    /\ NoViewer
    /\ NotDeploying
    /\ request \in [contentType : ContentTypes, headers : HeaderSets, body : Bodies]
    /\ processEnv \in Environments
    /\ response = Undefined
    /\ presignedPosts = << >>
    /\ upc = "received"

\* the request validator of the method: the request goes on to the function
\* or is answered by the API
ValidateRequest ==
    /\ upc = "received"
    /\ IF RequestValidator(request.contentType, request.body)
       THEN /\ upc' = "invoked"
            /\ UNCHANGED response
       ELSE /\ upc' = "rejected"
            /\ response' = GatewayResponse400
    /\ UNCHANGED <<request, processEnv, presignedPosts>>
    /\ UNCHANGED <<stackVars, siteVars>>

\* one invocation of exports.handler
Handler ==
    /\ upc = "invoked"
    /\ \E now \in Nows, settlement \in Settlements :
          \E outcome \in {handler(Event(request), processEnv, now, settlement)} :
             /\ presignedPosts' = presignedPosts \o outcome.presigned
             /\ IF Threw(outcome)
                THEN upc' = "crashed" /\ response' = GatewayResponse502
                ELSE upc' = "responded" /\ response' = outcome.response
    /\ UNCHANGED <<request, processEnv>>
    /\ UNCHANGED <<stackVars, siteVars>>

UploadNext ==
    \/ ValidateRequest
    \/ Handler

UploadSpec == UploadInit /\ [][UploadNext]_vars

----------------------------------------------------------------------------
(* The viewer-request function of the website distribution                  *)
(* (lib/image-gen-stack.ts): basic authentication in the dev stage and the  *)
(* rewrite of folder URIs, run by CloudFront before a request reaches an    *)
(* origin.                                                                  *)

\* the printable ASCII characters, from code 32 on (the quotation mark,
\* the reverse solidus and the grave accent by their names)
PrintableAscii ==
    <<" ", "!", "QUOTATION MARK", "#", "$", "%", "&", "'", "(", ")", "*", "+",
      ",", "-", ".", "/", "0", "1", "2", "3", "4", "5", "6", "7",
      "8", "9", ":", ";", "<", "=", ">", "?", "@", "A", "B", "C",
      "D", "E", "F", "G", "H", "I", "J", "K", "L", "M", "N", "O",
      "P", "Q", "R", "S", "T", "U", "V", "W", "X", "Y", "Z", "[",
      "REVERSE SOLIDUS", "]", "^", "_", "GRAVE ACCENT", "a", "b", "c", "d", "e", "f", "g",
      "h", "i", "j", "k", "l", "m", "n", "o", "p", "q", "r", "s",
      "t", "u", "v", "w", "x", "y", "z", "{", "|", "}", "~">>

\* the byte of a character in UTF-8
CharCode(c) == 31 + CHOOSE i \in DOMAIN PrintableAscii : PrintableAscii[i] = c

\* Buffer.from(string): the bytes of the string
BufferFrom(chars) == [i \in DOMAIN chars |-> CharCode(chars[i])]

Base64Alphabet ==
    <<"A", "B", "C", "D", "E", "F", "G", "H", "I", "J", "K", "L",
      "M", "N", "O", "P", "Q", "R", "S", "T", "U", "V", "W", "X",
      "Y", "Z", "a", "b", "c", "d", "e", "f", "g", "h", "i", "j",
      "k", "l", "m", "n", "o", "p", "q", "r", "s", "t", "u", "v",
      "w", "x", "y", "z", "0", "1", "2", "3", "4", "5", "6", "7",
      "8", "9", "+", "/">>

\* the character of a group of six bits
Sextet(n) == Base64Alphabet[n + 1]

RECURSIVE ToBase64(_)
\* buffer.toString("base64"): three bytes give four characters, the last
\* group is padded with "="
ToBase64(bytes) ==
    IF Len(bytes) = 0 THEN << >>
    ELSE IF Len(bytes) = 1
         THEN <<Sextet(bytes[1] \div 4), Sextet((bytes[1] % 4) * 16), "=", "=">>
    ELSE IF Len(bytes) = 2
         THEN <<Sextet(bytes[1] \div 4),
                Sextet((bytes[1] % 4) * 16 + bytes[2] \div 16),
                Sextet((bytes[2] % 16) * 4), "=">>
    ELSE <<Sextet(bytes[1] \div 4),
           Sextet((bytes[1] % 4) * 16 + bytes[2] \div 16),
           Sextet((bytes[2] % 16) * 4 + bytes[3] \div 64),
           Sextet(bytes[3] % 64)>>
         \o ToBase64(SubSeq(bytes, 4, Len(bytes)))

\* ${props.name} in a template literal: an omitted property reads "undefined"
Interpolated(props, name) ==
    IF name \in DOMAIN props THEN props[name] ELSE <<"u", "n", "d", "e", "f", "i", "n", "e", "d">>

\* the credentials the stack encodes for the dev function
credentials(props) ==
    ToBase64(BufferFrom(Interpolated(props, "devWebsiteUsername") \o <<":">>
                        \o Interpolated(props, "devWebsitePassword")))

\* string.includes(character)
includes(chars, c) == \E i \in DOMAIN chars : chars[i] = c

\* string.endsWith(character)
endsWith(chars, c) == Len(chars) > 0 /\ chars[Len(chars)] = c

IndexHtml == <<"i", "n", "d", "e", "x", ".", "h", "t", "m", "l">>

\* uri += 'index.html' where the uri ends with '/'
WithIndex(uri) == IF endsWith(uri, "/") THEN uri \o IndexHtml ELSE uri

\* uri += '/' where the uri does not end with one
WithSlash(uri) == IF ~endsWith(uri, "/") THEN uri \o <<"/">> ELSE uri

\* the rewrite of the dev function
RewriteDev(uri) ==
    IF uri # <<"/">> /\ ~includes(uri, ".") THEN WithIndex(WithSlash(uri)) ELSE uri

\* a rewrite that appends index.html to every URI but the root
RewriteNonDevFiles(uri) ==
    IF uri # <<"/">> THEN WithIndex(WithSlash(uri)) ELSE uri

\* the rewrite of the function of the other stages
RewriteNonDev(uri) ==
    IF uri # <<"/">> /\ ~includes(uri, ".") THEN WithIndex(WithSlash(uri)) ELSE uri

Unauthorized ==
    [statusCode        |-> 401,
     statusDescription |-> "Unauthorized",
     headers           |-> ("www-authenticate" :> [value |-> "Basic"])]

expectedHeader(encoded) == <<"B", "a", "s", "i", "c", " ">> \o encoded

\* a check of the header that accepts every header sent
AuthorizedWhenPresent(headers, encoded) == TRUE

\* authHeader === expectedHeader
Authenticated(headers, encoded) ==
    headers["authorization"].value = expectedHeader(encoded)

\* handler(event) of the dev function, the credentials being in its code
DevHandler(req, encoded) ==
    IF "authorization" \notin DOMAIN req.headers THEN Unauthorized
    ELSE IF ~Authenticated(req.headers, encoded) THEN Unauthorized
    ELSE [req EXCEPT !.uri = RewriteDev(req.uri)]

\* handler(event) of the function of the other stages
NonDevHandler(req) == [req EXCEPT !.uri = RewriteNonDev(req.uri)]

\* the function the stack creates for its stage
ViewerRequestFunction(props) ==
    IF props.stageName = "dev"
    THEN [code |-> "dev", credentials |-> credentials(props)]
    ELSE [code |-> "other"]

RunFunction(function, req) ==
    IF function.code = "dev" THEN DevHandler(req, function.credentials)
    ELSE NonDevHandler(req)

OutputPrefix == <<"/", "o", "u", "t", "p", "u", "t", "/">>

\* the cache behaviour whose path pattern matches the URI
Behavior(uri) ==
    IF Len(uri) >= Len(OutputPrefix) /\ SubSeq(uri, 1, Len(OutputPrefix)) = OutputPrefix
    THEN "/output/*"
    ELSE "default"

\* the functions each behaviour of the distribution runs on a viewer request
FunctionAssociations(function) ==
    [b \in {"default", "/output/*"} |-> <<function>>]

RECURSIVE RunAll(_, _)
\* the associated functions in turn: a response ends the processing
RunAll(functions, req) ==
    IF Len(functions) = 0 THEN req
    ELSE IF "statusCode" \in DOMAIN RunFunction(Head(functions), req)
         THEN RunFunction(Head(functions), req)
         ELSE RunAll(Tail(functions), RunFunction(Head(functions), req))

----
(* Stages, credentials and requests explored *)

StageNames == {"dev", "prod"}

Credentials ==
    {[devWebsiteUsername |-> <<"a", "b">>, devWebsitePassword |-> <<"c">>],
     [devWebsiteUsername |-> <<"a">>, devWebsitePassword |-> <<"b">>],
     [devWebsiteUsername |-> <<"a", "b">>, devWebsitePassword |-> <<"c", "d">>]}

SiteProps ==
    {[stageName |-> s] @@ c : s \in StageNames, c \in Credentials}
    \cup {[stageName |-> s] : s \in StageNames}

Uris ==
    {<<"/">>,
     <<"/", "a">>,
     <<"/", "a", "/">>,
     <<"/", "a", ".", "j", "s">>,
     <<"/", "a", "/", "i", "n", "d", "e", "x", ".", "h", "t", "m", "l">>,
     <<"/", "o", "u", "t", "p", "u", "t", "/", "x", ".", "p", "n", "g">>,
     <<"/", "o", "u", "t", "p", "u", "t", "/", "x">>,
     <<"/", "v", "1", ".", "2", "/", "a">>}

AuthorizationValues ==
    {<< >>,
     <<"B", "a", "s", "i", "c", " ", "Y", "W", "I", "6", "Y", "w", "=", "=">>,
     <<"B", "a", "s", "i", "c", " ", "Y", "T", "p", "i">>,
     <<"B", "a", "s", "i", "c", " ", "Y", "W", "I", "6", "Y", "2", "Q", "=">>,
     <<"B", "a", "s", "i", "c", " ", "d", "W", "5", "k", "Z", "W", "Z", "p", "b", "m", "V", "k", "O", "n", "V", "u", "Z", "G", "V", "m", "a", "W", "5", "l", "Z", "A", "=", "=">>,
     <<"B", "a", "s", "i", "c", " ", "a", "b", ":", "c">>,
     <<"b", "a", "s", "i", "c", " ", "Y", "W", "I", "6", "Y", "w", "=", "=">>,
     <<"B", "a", "s", "i", "c", " ", "Y", "W", "I", "6", "Y", "w">>}

ViewerHeaders ==
    {[host |-> [value |-> "a.io"]]}
    \cup {[host |-> [value |-> "a.io"], authorization |-> [value |-> v]] :
             v \in AuthorizationValues}

ViewerInit ==
    /\ NoTraffic
    /\ NotDeploying
    /\ throttlingConfig = Scenario
    /\ enableFirewall = FALSE
    /\ apiLimits = NoPlan
    /\ usagePlan = Undefined
    /\ wafIPRateLimit = Undefined
    /\ outputs = Undefined
    /\ pc = "configured"
    /\ siteProps \in SiteProps
    /\ viewerFunction = Undefined
    /\ viewerRequest \in [uri : Uris, headers : ViewerHeaders]
    /\ viewerResult = Undefined
    /\ vpc = "configured"

\* the constructor creates the function and the distribution
CreateDistribution ==
    /\ vpc = "configured"
    /\ viewerFunction' = FunctionAssociations(ViewerRequestFunction(siteProps))
    /\ vpc' = "deployed"
    /\ UNCHANGED <<siteProps, viewerRequest, viewerResult>>
    /\ UNCHANGED <<stackVars, uploadVars, deployVars>>

\* CloudFront runs the function of the matching behaviour: a response goes
\* to the viewer, a request goes on to the origin
ViewerRequest ==
    /\ vpc = "deployed"
    /\ \E result \in {RunAll(viewerFunction[Behavior(viewerRequest.uri)], viewerRequest)} :
          /\ viewerResult' = result
          /\ vpc' = IF "statusCode" \in DOMAIN result THEN "answered" ELSE "forwarded"
    /\ UNCHANGED <<siteProps, viewerFunction, viewerRequest>>
    /\ UNCHANGED <<stackVars, uploadVars, deployVars>>

ViewerNext ==
    \/ CreateDistribution
    \/ ViewerRequest

ViewerSpec == ViewerInit /\ [][ViewerNext]_vars

----------------------------------------------------------------------------
(* The deployment script (deploy.sh).  A line of the terminal is the text   *)
(* echoed, followed by the value of the variable it ends with where it has  *)
(* one; a command that was run is recorded with its exit status.  The      *)
(* script does not set errexit: the status of a command matters only where  *)
(* the script tests it.                                                     *)

Echo(text) == <<text>>

EchoWith(text, value) == <<text, value>>

Ran(command, status) == [command |-> command, status |-> status]

\* the exit statuses a command can end with
Statuses == {0, 1}

\* exit: the EXIT trap removes the temporary directory once it is set
Exit(status) ==
    /\ exitStatus' = status
    /\ dpc' = "exited"
    /\ tempDir' = IF tempDir = "created" THEN "removed" ELSE tempDir

\* lines 6-78: the argument, jq, the configuration file, the environment
\* variables and the values of the configuration
InvocationError(inv) ==
    IF inv.stage = ""
    THEN <<Echo("Please specify environment (dev or prod)"),
           Echo("Usage: ./deploy.sh dev|prod")>>
    ELSE IF ~inv.jq
    THEN <<Echo("Error: jq is not installed. Please install jq to parse JSON files")>>
    ELSE IF ~inv.configFile
    THEN <<EchoWith("Error: Configuration file not found", inv.stage)>>
    ELSE IF inv.empty \in {"GITHUB_TOKEN", "RUNPODS_API_KEY", "AWS_ACCESS_KEY_ID",
                           "AWS_SECRET_ACCESS_KEY", "AWS_REGION"}
    THEN <<EchoWith("Error: not set", inv.empty)>>
    ELSE IF inv.empty \in {"awsAccountId", "awsWebsiteBucketPrefix", "frontendRepo"}
    THEN <<EchoWith("Error: not found in config file", inv.empty)>>
    ELSE << >>

CheckInvocation ==
    /\ dpc = "start"
    /\ IF InvocationError(invocation) # << >>
       THEN /\ terminal' = terminal \o InvocationError(invocation)
            /\ Exit(1)
       ELSE /\ dpc' = "deploy"
            /\ UNCHANGED <<terminal, exitStatus, tempDir>>
    /\ UNCHANGED <<invocation, commands>>
    /\ UNCHANGED <<stackVars, uploadVars, viewerVars>>

\* the command line of the deployment for a stage
CdkDeployCommand(stage) ==
    IF stage = "prod"
    THEN "npx cdk deploy --context stage=prod --require-approval never"
    ELSE "npx cdk deploy --context stage=dev"

\* lines 80-91: the deployment; the script goes on whatever its status
CdkDeploy ==
    /\ dpc = "deploy"
    /\ terminal' = terminal \o <<Echo("Starting CDK deployment..."),
                                 EchoWith("Deploying CDK infrastructure", invocation.stage)>>
    /\ \E status \in Statuses :
          commands' = Append(commands, Ran(CdkDeployCommand(invocation.stage), status))
    /\ dpc' = "clone"
    /\ UNCHANGED <<invocation, exitStatus, tempDir>>
    /\ UNCHANGED <<stackVars, uploadVars, viewerVars>>

\* lines 93-105: the temporary directory, the trap and the clone
CloneRepository ==
    /\ dpc = "clone"
    /\ \E status \in Statuses :
          /\ commands' = Append(commands, Ran("git clone", status))
          /\ IF status # 0
             THEN /\ terminal' = terminal \o
                        <<Echo("Building frontend and syncing frontend files to S3..."),
                          Echo("Cloning frontend repository..."),
                          Echo("Error: Failed to clone repository")>>
                  /\ exitStatus' = 1
                  /\ dpc' = "exited"
                  /\ tempDir' = "removed"
             ELSE /\ terminal' = terminal \o
                        <<Echo("Building frontend and syncing frontend files to S3..."),
                          Echo("Cloning frontend repository...")>>
                  /\ dpc' = "install"
                  /\ tempDir' = "created"
                  /\ UNCHANGED exitStatus
    /\ UNCHANGED invocation
    /\ UNCHANGED <<stackVars, uploadVars, viewerVars>>

\* lines 107-115
NpmInstall ==
    /\ dpc = "install"
    /\ \E status \in Statuses :
          /\ commands' = Append(commands, Ran("npm install", status))
          /\ IF status # 0
             THEN /\ terminal' = terminal \o
                        <<Echo("Installing npm dependencies..."),
                          Echo("Error: Failed to install dependencies")>>
                  /\ Exit(1)
             ELSE /\ terminal' = Append(terminal, Echo("Installing npm dependencies..."))
                  /\ dpc' = "build"
                  /\ UNCHANGED <<exitStatus, tempDir>>
    /\ UNCHANGED invocation
    /\ UNCHANGED <<stackVars, uploadVars, viewerVars>>

\* lines 117-121
WebpackBuild ==
    /\ dpc = "build"
    /\ \E status \in Statuses :
          /\ commands' = Append(commands, Ran("npm run webpack-build", status))
          /\ IF status # 0
             THEN /\ terminal' = terminal \o
                        <<Echo("Running webpack build..."),
                          Echo("Error: Failed to build frontend")>>
                  /\ Exit(1)
             ELSE /\ terminal' = Append(terminal, Echo("Running webpack build..."))
                  /\ dpc' = "dist"
                  /\ UNCHANGED <<exitStatus, tempDir>>
    /\ UNCHANGED invocation
    /\ UNCHANGED <<stackVars, uploadVars, viewerVars>>

\* lines 123-127: status 0 where dist is a directory with entries
VerifyDist ==
    /\ dpc = "dist"
    /\ \E status \in Statuses :
          /\ commands' = Append(commands, Ran("[ -d dist ] && [ -n $(ls -A dist) ]", status))
          /\ IF status # 0
             THEN /\ terminal' = Append(terminal,
                        Echo("Error: dist directory is missing or empty after build"))
                  /\ Exit(1)
             ELSE /\ dpc' = "sync"
                  /\ UNCHANGED <<terminal, exitStatus, tempDir>>
    /\ UNCHANGED invocation
    /\ UNCHANGED <<stackVars, uploadVars, viewerVars>>

\* lines 129-136: the sync where head-bucket found the bucket
Sync(found, status) ==
    IF found = 0
    THEN [ran  |-> <<Ran("aws s3api head-bucket", found), Ran("aws s3 sync", status)>>,
          echo |-> <<Echo("Bucket exists, syncing files...")>>]
    ELSE [ran  |-> <<Ran("aws s3api head-bucket", found)>>,
          echo |-> <<Echo("Bucket doesn't exist yet, skipping sync")>>]

SyncToBucket ==
    /\ dpc = "sync"
    /\ \E found \in Statuses, status \in Statuses :
          /\ commands' = commands \o Sync(found, status).ran
          /\ terminal' = terminal \o Sync(found, status).echo
    /\ dpc' = "finish"
    /\ UNCHANGED <<invocation, exitStatus, tempDir>>
    /\ UNCHANGED <<stackVars, uploadVars, viewerVars>>

SucceededMessage == "CDK deployment and S3 sync succeeded for stage"

\* line 138 and the end of the script
Finish ==
    /\ dpc = "finish"
    /\ terminal' = Append(terminal, EchoWith(SucceededMessage, invocation.stage))
    /\ Exit(0)
    /\ UNCHANGED <<invocation, commands>>
    /\ UNCHANGED <<stackVars, uploadVars, viewerVars>>

----
(* Invocations explored *)

Stages == {"", "dev", "prod"}

Checked ==
    {"GITHUB_TOKEN", "RUNPODS_API_KEY", "AWS_ACCESS_KEY_ID", "AWS_SECRET_ACCESS_KEY",
     "AWS_REGION", "awsAccountId", "awsWebsiteBucketPrefix", "frontendRepo"}

\* the argument, whether jq and the configuration file exist, and the
\* variable or configuration value that is empty, if one is
Invocations ==
    [stage : Stages, jq : BOOLEAN, configFile : BOOLEAN, empty : {"none"} \cup Checked]

DeployInit ==
    /\ NoTraffic
    /\ NoViewer
    /\ throttlingConfig = Scenario
    /\ enableFirewall = FALSE
    /\ apiLimits = NoPlan
    /\ usagePlan = Undefined
    /\ wafIPRateLimit = Undefined
    /\ outputs = Undefined
    /\ pc = "configured"
    /\ invocation \in Invocations
    /\ dpc = "start"
    /\ terminal = << >>
    /\ commands = << >>
    /\ exitStatus = Undefined
    /\ tempDir = "none"

DeployNext ==
    \/ CheckInvocation
    \/ CdkDeploy
    \/ CloneRepository
    \/ NpmInstall
    \/ WebpackBuild
    \/ VerifyDist
    \/ SyncToBucket
    \/ Finish

DeploySpec == DeployInit /\ [][DeployNext]_vars

----------------------------------------------------------------------------
(* Properties of calculateTPS *)

Planned == pc = "planned"

Limits == apiLimits.limits

Metrics == apiLimits.details.metrics

Inputs == apiLimits.inputs

\* the unrounded values of the call that produced the plan
Unrounded == Consts(throttlingConfig)

\* the integer part of k * x, exactly
BFloorTimes(k, x) ==
    IF x = FZero THEN << >>
    ELSE IF x[2] >= 0 THEN BShl(BMulSmall(x[1], k), x[2])
    ELSE BShr(BMulSmall(x[1], k), -x[2])

\* C1: the returned runTPS (after the two-decimal rounding and the floor at 1)
\* is at most the returned workerLimitedTPS.
C1_RunTPSWithinWorkerLimit ==
    Planned => FLeq(Limits.runTPS, Metrics.workerLimitedTPS)

\* C2: the returned runTPSBurst (after truncation and the floor at 1) is at
\* most the returned workerLimitedTPS.
C2_RunTPSBurstWithinWorkerLimit ==
    Planned => FLeq(Limits.runTPSBurst, Metrics.workerLimitedTPS)

\* the clamp of the burst by the worker limit acted on a plan above the floor
C2_Witness ==
    /\ Planned
    /\ FLess(Metrics.workerLimitedTPS,
             FMul(Unrounded.runTPS, Inputs.burstTrafficMultiplier))
    /\ FLess(One, Limits.runTPSBurst)

\* C3: each of the four returned limits is at least 1.
C3_LimitsAtLeastOne ==
    Planned =>
        /\ FLeq(One, Limits.runTPS)
        /\ FLeq(One, Limits.statusTPS)
        /\ FLeq(One, Limits.runTPSBurst)
        /\ FLeq(One, Limits.statusTPSBurst)

\* a plan whose unrounded rates are all below 1, so that every floor acted
C3_Witness ==
    /\ Planned
    /\ FLess(Unrounded.runTPS, One)
    /\ FLess(Unrounded.statusTPS, One)
    /\ FLess(Unrounded.runTPSBurst, One)
    /\ FLess(Unrounded.statusTPSBurst, One)

\* the reference derivation of the four limits from the resolved inputs
RefUsers(in) ==
    FDiv(FMul(in.maxWorkers,
              FAdd(in.generationTimeSeconds, in.averageThinkTimeSeconds)),
         in.generationTimeSeconds)

RefSafety(in) == FAdd(One, FDiv(in.safetyFactorPercent, Hundred))

RefCeiling(in) == MathMax(FDiv(in.maxWorkers, in.generationTimeSeconds), One)

RefSubmit(in) ==
    MathMin(FDiv(FMul(RefUsers(in), RefSafety(in)), in.generationTimeSeconds),
            RefCeiling(in))

RefPoll(in) ==
    FDiv(FMul(RefUsers(in), RefSafety(in)), in.statusPollIntervalSeconds)

RefLimits(in) ==
    [runTPS         |-> MathMax(One, ToFixed2(RefSubmit(in))),
     statusTPS      |-> MathMax(One, ToFixed2(RefPoll(in))),
     runTPSBurst    |->
         MathMax(One, MathFloor(MathMin(RefCeiling(in),
                      FMul(RefSubmit(in), in.burstTrafficMultiplier)))),
     statusTPSBurst |->
         MathMax(One, MathFloor(FMul(RefPoll(in), in.burstTrafficMultiplier)))]

\* C4: the four returned limits are those of the reference derivation
\* (runTPS clamped by the worker ceiling, statusTPS not clamped, the burst
\* values computed from the unrounded steady-state values).
C4_LimitsOfReferenceDerivation ==
    Planned => Limits = RefLimits(Destructure(throttlingConfig))

\* limit is the floor at 1 of the whole number got by truncating raw downwards
IsTruncationFlooredAtOne(limit, raw) ==
    /\ IsInteger(limit)
    /\ IF FLess(raw, One) THEN limit = One
       ELSE FLeq(limit, raw) /\ FLess(raw, FAdd(limit, One))

\* limit is the floor at 1 of the two-decimal number n/100 nearest to raw
\* (n/100 - 1/200 <= raw < n/100 + 1/200), read as a double
IsTwoDecimalRoundingFlooredAtOne(limit, raw) ==
    LET c == BFloorTimes(100, raw)
        f == BFloorTimes(200, raw)
    IN  \E n \in {c, BAdd(c, <<1>>)} :
            /\ f = BMulSmall(n, 2) \/ BAdd(f, <<1>>) = BMulSmall(n, 2)
            /\ limit = IF BCmp(n, <<100>>) < 0 THEN One
                       ELSE FDiv(FromNat(n), Hundred)

\* C5: the burst limits are whole numbers got by truncating the unrounded
\* burst rates downwards; the steady-state limits are the unrounded rates
\* rounded to two decimal digits; each is then floored at 1.
C5_RoundingPolicy ==
    Planned =>
        /\ IsTruncationFlooredAtOne(Limits.runTPSBurst, Unrounded.runTPSBurst)
        /\ IsTruncationFlooredAtOne(Limits.statusTPSBurst,
                                    Unrounded.statusTPSBurst)
        /\ IsTwoDecimalRoundingFlooredAtOne(Limits.runTPS, Unrounded.runTPS)
        /\ IsTwoDecimalRoundingFlooredAtOne(Limits.statusTPS,
                                            Unrounded.statusTPS)

\* a plan above the floor in which both roundings and both truncations
\* changed the value
C5_Witness ==
    /\ Planned
    /\ FLess(One, Unrounded.runTPSBurst)
    /\ Limits.runTPS # Unrounded.runTPS
    /\ Limits.statusTPS # Unrounded.statusTPS
    /\ Limits.runTPSBurst # Unrounded.runTPSBurst
    /\ Limits.statusTPSBurst # Unrounded.statusTPSBurst

UnitBurst == Planned /\ Inputs.burstTrafficMultiplier = One

C7_PollBurstIsFloorOfStatusTPS ==
    UnitBurst => Limits.statusTPSBurst = MathFloor(Limits.statusTPS)

\* C7 as amended: with burstTrafficMultiplier = 1 the returned statusTPSBurst
\* is floor(statusTPS), except that it is statusTPS - 1 when the two-decimal
\* rounding carried statusTPS up to a whole number.
C7_PollBurstIsFloorOfStatusTPSUpToCarry ==
    UnitBurst =>
        \/ Limits.statusTPSBurst = MathFloor(Limits.statusTPS)
        \/ /\ IsInteger(Limits.statusTPS)
           /\ FAdd(Limits.statusTPSBurst, One) = Limits.statusTPS
           /\ FLess(Unrounded.statusTPS, Limits.statusTPS)

\* a unit-burst plan above the floor whose poll burst is the integer part of
\* a fractional statusTPS
C7_Witness ==
    /\ UnitBurst
    /\ FLess(One, Limits.statusTPSBurst)
    /\ ~IsInteger(Limits.statusTPS)
    /\ Limits.statusTPSBurst = MathFloor(Limits.statusTPS)

\* the plan calculateTPS returns for the configuration with one more worker
PlanWithOneMoreWorker ==
    calculateTPS([throttlingConfig EXCEPT
                     !.maxWorkers = FAdd(throttlingConfig.maxWorkers, One)])

\* the plan calculateTPS returns for the configuration with poll interval p
PlanWithPollInterval(p) ==
    calculateTPS([throttlingConfig EXCEPT !.statusPollIntervalSeconds = p])

\* C8: with every other input fixed, a larger maxWorkers gives a runTPS and
\* a workerLimitedTPS that are not smaller.  maxWorkers is a whole number, so
\* the step from each maxWorkers to the next one covers every pair w1 <= w2.
C8_MonotoneInMaxWorkers ==
    Planned =>
        /\ FLeq(Limits.runTPS, PlanWithOneMoreWorker.limits.runTPS)
        /\ FLeq(Metrics.workerLimitedTPS,
                PlanWithOneMoreWorker.details.metrics.workerLimitedTPS)

\* a plan above the floor for which one more worker raises runTPS together
\* with the worker limit
C8_Witness ==
    /\ Planned
    /\ FLess(One, Limits.runTPS)
    /\ FLess(Limits.runTPS, PlanWithOneMoreWorker.limits.runTPS)
    /\ FLess(Metrics.workerLimitedTPS,
             PlanWithOneMoreWorker.details.metrics.workerLimitedTPS)

\* C9 as stated: with every other input fixed, a larger
\* statusPollIntervalSeconds gives a strictly smaller returned statusTPS.
C9_StatusTPSStrictlyDecreasing ==
    Planned =>
        \A p \in PollIntervals :
            FLess(throttlingConfig.statusPollIntervalSeconds, p) =>
                FLess(PlanWithPollInterval(p).limits.statusTPS, Limits.statusTPS)

\* C9 as amended: with every other input fixed, a larger
\* statusPollIntervalSeconds gives a returned statusTPS that is not larger.
C9_StatusTPSNonIncreasing ==
    Planned =>
        \A p \in PollIntervals :
            FLess(throttlingConfig.statusPollIntervalSeconds, p) =>
                FLeq(PlanWithPollInterval(p).limits.statusTPS, Limits.statusTPS)

\* a plan for which a larger poll interval lowers statusTPS
C9_Witness ==
    /\ Planned
    /\ \E p \in PollIntervals :
          /\ FLess(throttlingConfig.statusPollIntervalSeconds, p)
          /\ FLess(PlanWithPollInterval(p).limits.statusTPS, Limits.statusTPS)

\* C10: when maxWorkers <= generationTimeSeconds, workerLimitedTPS, runTPS
\* and runTPSBurst are exactly 1; the scenario yields the stated metrics.
C10_SmallPoolClampsToOne ==
    Planned =>
        /\ FLeq(throttlingConfig.maxWorkers,
                throttlingConfig.generationTimeSeconds) =>
              /\ Metrics.workerLimitedTPS = One
              /\ Limits.runTPS = One
              /\ Limits.runTPSBurst = One
        /\ throttlingConfig = Scenario =>
              /\ Metrics.statusChecksPerGeneration = FromInt(6)
              /\ Metrics.cycleTimeSeconds = FromInt(45)
              /\ Metrics.maxSupportedUsers = FromInt(15)
              /\ Metrics.workerLimitedTPS = One
              /\ Limits.runTPS = One
              /\ Limits.runTPSBurst = One

\* the plan of the scenario
C10_Witness == Planned /\ throttlingConfig = Scenario

\* C11: feeding the inputs field of the plan back into calculateTPS returns
\* the same limits, details and inputs.
C11_RoundTrip ==
    Planned => calculateTPS(Inputs) = apiLimits

\* a plan of a configuration that left an optional field out, whose inputs
\* field (carrying the default) differs from the configuration and still
\* reproduces the plan
C11_Witness ==
    /\ Planned
    /\ throttlingConfig.averageThinkTimeSeconds = Absent
    /\ Inputs # throttlingConfig
    /\ Inputs.averageThinkTimeSeconds # Absent
    /\ calculateTPS(Inputs) = apiLimits

\* the configuration with 15, 0 and 2 passed for the optional fields left out
WithDefaultsPassed(params) ==
    [params EXCEPT
        !.averageThinkTimeSeconds = IF @ = Absent THEN FromInt(15) ELSE @,
        !.safetyFactorPercent     = IF @ = Absent THEN FromInt(0) ELSE @,
        !.burstTrafficMultiplier  = IF @ = Absent THEN FromInt(2) ELSE @]

\* C12: a configuration with optional fields left out gets the plan of the
\* configuration with averageThinkTimeSeconds = 15, safetyFactorPercent = 0,
\* burstTrafficMultiplier = 2 passed in their place, and the plan's inputs,
\* details.safetyFactor and details.burstTrafficFactor hold the resolved
\* values.
C12_OmittedIsDefault ==
    Planned =>
        /\ apiLimits = calculateTPS(WithDefaultsPassed(throttlingConfig))
        /\ Inputs = WithDefaultsPassed(throttlingConfig)
        /\ apiLimits.details.safetyFactor =
              WithDefaultsPassed(throttlingConfig).safetyFactorPercent
        /\ apiLimits.details.burstTrafficFactor =
              WithDefaultsPassed(throttlingConfig).burstTrafficMultiplier

\* a plan of a configuration that left all three optional fields out
C12_Witness ==
    /\ Planned
    /\ throttlingConfig.averageThinkTimeSeconds = Absent
    /\ throttlingConfig.safetyFactorPercent = Absent
    /\ throttlingConfig.burstTrafficMultiplier = Absent
    /\ Inputs.averageThinkTimeSeconds = FromInt(15)
    /\ apiLimits.details.safetyFactor = FromInt(0)
    /\ apiLimits.details.burstTrafficFactor = FromInt(2)

\* C13: the metrics of the plan are the intermediate quantities of the
\* derivation, with maxSupportedUsers =
\* maxWorkers * cycleTimeSeconds / generationTimeSeconds >= maxWorkers and
\* workerLimitedTPS = max(maxWorkers / generationTimeSeconds, 1) >= 1.
C13_MetricsOfDerivation ==
    Planned =>
        /\ Metrics.statusChecksPerGeneration =
              FDiv(Inputs.generationTimeSeconds, Inputs.statusPollIntervalSeconds)
        /\ Metrics.sessionDurationSeconds =
              FMul(Inputs.imagesPerSession, Inputs.generationTimeSeconds)
        /\ Metrics.runCallsPerSession = Inputs.imagesPerSession
        /\ Metrics.statusCallsPerSession =
              FMul(Inputs.imagesPerSession, Metrics.statusChecksPerGeneration)
        /\ Metrics.cycleTimeSeconds =
              FAdd(Inputs.generationTimeSeconds, Inputs.averageThinkTimeSeconds)
        /\ Metrics.maxSupportedUsers =
              FDiv(FMul(Inputs.maxWorkers, Metrics.cycleTimeSeconds),
                   Inputs.generationTimeSeconds)
        /\ FLeq(Inputs.maxWorkers, Metrics.maxSupportedUsers)
        /\ Metrics.workerLimitedTPS =
              MathMax(FDiv(Inputs.maxWorkers, Inputs.generationTimeSeconds), One)
        /\ FLeq(One, Metrics.workerLimitedTPS)

\* a JavaScript number, finite or not
IsNumber(x) ==
    \/ x \in {NaN, Infinity, NegInfinity}
    \/ /\ Len(x) \in {2, 3}
       /\ x[1] = << >> \/ BBitLen(x[1]) = MantissaBits

\* the call has returned a result record
ResultReturned ==
    /\ DOMAIN apiLimits = {"limits", "details", "inputs"}
    /\ DOMAIN Limits = {"runTPS", "statusTPS", "runTPSBurst", "statusTPSBurst"}
    /\ \A name \in DOMAIN Limits : IsNumber(Limits[name])
    /\ \A name \in DOMAIN Metrics : IsNumber(Metrics[name])
    /\ Inputs = Destructure(throttlingConfig)

\* C14: calculateTPS never signals a failure: with a zero generation time,
\* poll interval or cycle time, or a negative input, it still returns a
\* result record, whose values may be non-finite or below 1.
C14_NoFailureSignalled ==
    Unvalidated(Destructure(throttlingConfig)) =>
        /\ pc # "failed"
        /\ pc # "configured" => ResultReturned

C14_Witness ==
    /\ Planned
    /\ throttlingConfig.generationTimeSeconds = FZero
    /\ Limits.runTPS = Infinity
    /\ Limits.statusTPS = NaN
    /\ ~FLeq(One, Limits.statusTPS)

----------------------------------------------------------------------------
(* Properties of the stack constructor *)

Throttled == pc \in {"throttled", "firewalled", "done"}

\* the throttles the API stage of the usage plan carries for method m
MethodThrottlesOf(m) ==
    {usagePlan.apiStages[1].throttle[i].throttle :
        i \in {j \in DOMAIN usagePlan.apiStages[1].throttle :
                  usagePlan.apiStages[1].throttle[j].method = m}}

\* C15: the throttles are those of the plan of calculateTPS(throttlingConfig):
\* runTPS / runTPSBurst on POST /run, statusTPS / statusTPSBurst on
\* GET /status/{jobId}, the larger of the two rates and the larger of the two
\* bursts on the usage plan, which is so never below a per-method limit.
C15_PlanAppliedAsThrottles ==
    Throttled =>
        /\ apiLimits = calculateTPS(throttlingConfig)
        /\ MethodThrottlesOf("runMethod") =
              {[rateLimit |-> Limits.runTPS, burstLimit |-> Limits.runTPSBurst]}
        /\ MethodThrottlesOf("statusMethod") =
              {[rateLimit  |-> Limits.statusTPS,
                burstLimit |-> Limits.statusTPSBurst]}
        /\ usagePlan.throttle.rateLimit \in {Limits.runTPS, Limits.statusTPS}
        /\ usagePlan.throttle.burstLimit \in
              {Limits.runTPSBurst, Limits.statusTPSBurst}
        /\ \A i \in DOMAIN usagePlan.apiStages[1].throttle :
              /\ FLeq(usagePlan.apiStages[1].throttle[i].throttle.rateLimit,
                      usagePlan.throttle.rateLimit)
              /\ FLeq(usagePlan.apiStages[1].throttle[i].throttle.burstLimit,
                      usagePlan.throttle.burstLimit)

\* a throttled stack whose poll limits are above its submission limits, so
\* that the usage plan carries the poll limits
C15_Witness ==
    /\ Throttled
    /\ FLess(Limits.runTPS, Limits.statusTPS)
    /\ FLess(Limits.runTPSBurst, Limits.statusTPSBurst)
    /\ usagePlan.throttle =
          [rateLimit |-> Limits.statusTPS, burstLimit |-> Limits.statusTPSBurst]

\* C16: with the firewall enabled, each of the three IP-level rules carries a
\* defined limit, which is limits.ipRunLimit or limits.ipStatusLimit of the
\* plan, and the window reported with them, inputs.ipLimitWindowMinutes, is
\* defined.
C16_FirewallLimitsDefined ==
    (pc = "done" /\ enableFirewall) =>
        /\ Len(wafIPRateLimit.rules) = 3
        /\ \A i \in DOMAIN wafIPRateLimit.rules :
              wafIPRateLimit.rules[i].limit # Undefined
        /\ outputs.TPSLimits.ipRunLimit # Undefined
        /\ outputs.TPSLimits.ipStatusLimit # Undefined
        /\ outputs.TPSLimits.ipLimitWindowMinutes # Undefined

----------------------------------------------------------------------------
(* Properties of the upload-URL function *)

\* the function has returned
Responded == upc = "responded"

\* the body the function parsed, when JSON.parse took the text
ParsedBody == JSONParse(BodyOrEmptyObject(request.body))

BodyParses == ~ParseThrows(BodyOrEmptyObject(request.body))

\* the property of the parsed body, undefined when it has none
BodyField(key) == IF BodyParses THEN Property(ParsedBody, key) ELSE JsUndefined

\* absent or empty
Lacks(key) == BodyField(key) = JsUndefined \/ BodyField(key) = JsString(<< >>)

\* an upload authorization was returned
Authorized == Responded /\ response.statusCode = 200

\* C17: a request whose body lacks fileName or fileType (absent or empty)
\* gets status 400 and createPresignedPost is not called for it.
C17_MissingFieldRejected ==
    (Responded /\ BodyParses /\ (Lacks("fileName") \/ Lacks("fileType")))
        => (response.statusCode = 400 /\ presignedPosts = << >>)

\* C18: a request whose fileType is not in the MIME allow-list gets status
\* 400 and no upload authorization is generated, and an upload authorization
\* is only ever issued for a fileType in the allow-list.
C18_TypeOutsideAllowListRejected ==
    /\ (/\ Responded
        /\ BodyField("fileType") # JsUndefined
        /\ BodyField("fileType") \notin {ImagePng, ImageJpeg})
          => (response.statusCode = 400 /\ presignedPosts = << >>)
    /\ \A i \in DOMAIN presignedPosts :
          /\ presignedPosts[i].Fields.ContentType \in {ImagePng, ImageJpeg}
          /\ presignedPosts[i].Conditions.eqContentType \in {ImagePng, ImageJpeg}
    /\ Authorized => response.body.fields.ContentType \in {ImagePng, ImageJpeg}

C18_Witness ==
    /\ Responded
    /\ BodyField("fileName") = JsString(<<"a", ".", "p", "n", "g">>)
    /\ BodyField("fileType") = JsString(<<"i", "m", "a", "g", "e", "/", "g", "i", "f">>)
    /\ response.statusCode = 400
    /\ presignedPosts = << >>

\* C19: a body that is not parseable JSON results in a 4xx response, not in
\* a server error.
C19_MalformedIsClientError ==
    (Responded /\ ~BodyParses)
        => (response.statusCode >= 400 /\ response.statusCode < 500)

\* the name given to the file, as the characters of the key after the time
EndsWithAllowedExtension(chars) ==
    \E e \in {<<".", "p", "n", "g">>, <<".", "j", "p", "g">>,
              <<".", "j", "p", "e", "g">>} :
        /\ Len(chars) >= Len(e)
        /\ SubSeq(chars, Len(chars) - Len(e) + 1, Len(chars)) = e

\* C20: no upload authorization is ever returned for a fileName that does
\* not end in one of the allowed extensions png, jpg, jpeg.
C20_ExtensionValidated ==
    Authorized => /\ BodyField("fileName").type = "string"
                  /\ EndsWithAllowedExtension(BodyField("fileName").value)

\* the text the handler gives a value in a template
Rendered(v) == IF v.type = "string" THEN v.value ELSE DecimalString(v.number)

\* C21: every 200 response carries url, fields and fileKey of an
\* authorization that expires after 180 seconds, is bounded to a payload of
\* 0..5 MiB, is bound to exactly the requested Content-Type, and whose
\* fileKey is the requested fileName prefixed by the issue time and "-".
C21_AuthorizationBounded ==
    Authorized =>
        /\ DOMAIN response.body = {"url", "fields", "fileKey"}
        /\ Len(presignedPosts) = 1
        /\ presignedPosts[1].Expires = 180
        /\ presignedPosts[1].Conditions.contentLengthRange = <<0, 5242880>>
        /\ presignedPosts[1].Conditions.eqContentType = BodyField("fileType")
        /\ presignedPosts[1].Fields.ContentType = BodyField("fileType")
        /\ presignedPosts[1].Key = response.body.fileKey
        /\ response.body.fields.key = response.body.fileKey
        /\ response.body.fields.ContentType = BodyField("fileType")
        /\ response.body.fields.Policy.expires = 180
        /\ response.body.fields.Policy.conditions.contentLengthRange = <<0, 5242880>>
        /\ \E now \in {7, 1234} :
              response.body.fileKey =
                 DecimalString(now) \o <<"-">> \o Rendered(BodyField("fileName"))

C21_Witness ==
    /\ Authorized
    /\ BodyField("fileName") = JsString(<<"a", ".", "p", "n", "g">>)
    /\ BodyField("fileType") = JsString(<<"i", "m", "a", "g", "e", "/", "p", "n", "g">>)
    /\ response.body.fileKey = <<"1", "2", "3", "4", "-", "a", ".", "p", "n", "g">>

\* the errors thrown inside the handler
ErrorsThrown ==
    {ParseError, NullReadError} \cup {s.reason : s \in Settlements \ {Fulfilled}}

\* what only the inside of the function knows of a failure
InternalDetails ==
    {e.message : e \in ErrorsThrown} \cup {e.name : e \in ErrorsThrown}
    \cup {e.stack : e \in ErrorsThrown}

ServerError == Responded /\ response.statusCode = 500

\* the call of createPresignedPost was made and gave no authorization
SignerFailed == Responded /\ presignedPosts # << >> /\ response.statusCode # 200

\* C22: an internal failure becomes a 500 response that carries nothing of
\* the failure beyond a generic error message, and the exception never
\* leaves the handler.
C22_GenericServerError ==
    /\ upc # "crashed"
    /\ SignerFailed => ServerError
    /\ ServerError =>
          /\ response.body.error = "Failed to generate upload URL"
          /\ \A field \in DOMAIN response.body :
                response.body[field] \notin InternalDetails

\* C22, amended: an internal failure becomes a 500 response with the generic
\* error text and, as details, the message of the exception and nothing else
\* of it, and the exception never leaves the handler.
C22_ServerErrorWithMessage ==
    /\ upc # "crashed"
    /\ SignerFailed => ServerError
    /\ ServerError =>
          /\ DOMAIN response.body = {"error", "details"}
          /\ response.body.error = "Failed to generate upload URL"
          /\ response.body.details \in {e.message : e \in ErrorsThrown}
          /\ response.body.details \notin {e.stack : e \in ErrorsThrown}
          /\ response.body.details \notin {e.name : e \in ErrorsThrown}

C22_Witness ==
    /\ SignerFailed
    /\ ServerError
    /\ response.body.details = "Could not load credentials from any providers"

\* the Origin header of the request, "" without one
OriginHeader ==
    IF request.headers.type # "object" THEN << >>
    ELSE IF "origin" \in DOMAIN request.headers.fields
    THEN request.headers.fields["origin"].value
    ELSE IF "Origin" \in DOMAIN request.headers.fields
    THEN request.headers.fields["Origin"].value
    ELSE << >>

\* the function was configured with the list https://a.io,https://b.io
ListConfigured ==
    /\ "ALLOWED_ORIGINS" \in DOMAIN processEnv.fields
    /\ processEnv.fields["ALLOWED_ORIGINS"].value =
          <<"h", "t", "t", "p", "s", ":", "/", "/", "a", ".", "i", "o", ",",
            "h", "t", "t", "p", "s", ":", "/", "/", "b", ".", "i", "o">>

\* the configured list of allowed origins, ["*"] without a configuration
ConfiguredOrigins ==
    IF ListConfigured
    THEN <<<<"h", "t", "t", "p", "s", ":", "/", "/", "a", ".", "i", "o">>,
           <<"h", "t", "t", "p", "s", ":", "/", "/", "b", ".", "i", "o">>>>
    ELSE << <<"*">> >>

AllowOrigin == response.headers["Access-Control-Allow-Origin"]

\* C26: every response of the handler (200, 400 and 500) carries the CORS
\* headers, and its Access-Control-Allow-Origin is the Origin of the request
\* when that is in the configured list and the first configured origin
\* otherwise: an Origin outside the list is never echoed back.
C26_CorsOriginFromList ==
    Responded =>
        /\ response.statusCode \in {200, 400, 500}
        /\ {"Access-Control-Allow-Origin", "Access-Control-Allow-Headers",
            "Access-Control-Allow-Methods", "Access-Control-Allow-Credentials"}
              \subseteq DOMAIN response.headers
        /\ AllowOrigin =
              IF \E i \in DOMAIN ConfiguredOrigins : ConfiguredOrigins[i] = OriginHeader
              THEN OriginHeader
              ELSE ConfiguredOrigins[1]
        /\ AllowOrigin \in {ConfiguredOrigins[i] : i \in DOMAIN ConfiguredOrigins}

C26_Witness ==
    /\ Responded
    /\ ListConfigured
    /\ response.statusCode = 200
    /\ OriginHeader = <<"h", "t", "t", "p", "s", ":", "/", "/", "x", ".", "i", "o">>
    /\ AllowOrigin = <<"h", "t", "t", "p", "s", ":", "/", "/", "a", ".", "i", "o">>

\* C27: with the environment the stack passes to the function, no response
\* of the handler has Access-Control-Allow-Origin "*" or any origin other
\* than the allowed origin of the stack.
C27_DeployedOriginRestricted ==
    (Responded /\ processEnv = LambdaEnvironment) =>
        /\ AllowOrigin # <<"*">>
        /\ AllowOrigin = <<"h", "t", "t", "p", "s", ":", "/", "/", "a", ".", "i", "o">>

----------------------------------------------------------------------------
(* Further properties of the plan *)

\* the plan calculateTPS returns for the configuration with n images
PlanWithImages(n) ==
    calculateTPS([throttlingConfig EXCEPT !.imagesPerSession = n])

\* C23: the four limits do not depend on imagesPerSession: two valid inputs
\* that differ only in imagesPerSession yield the same limits.
C23_LimitsIndependentOfImages ==
    Planned => \A n \in ImageCounts : PlanWithImages(n).limits = Limits

\* C24: for valid inputs the worker clamp is binding on the submission
\* limits: runTPS = max(1, round2(maxWorkers / generationTimeSeconds)) and
\* runTPSBurst = max(1, floor(maxWorkers / generationTimeSeconds)), whatever
\* the think time, safety factor, burst multiplier and poll interval.
C24_WorkerClampBinding ==
    Planned =>
        /\ Limits.runTPS =
              MathMax(One, ToFixed2(FDiv(Inputs.maxWorkers,
                                         Inputs.generationTimeSeconds)))
        /\ Limits.runTPSBurst =
              MathMax(One, MathFloor(FDiv(Inputs.maxWorkers,
                                          Inputs.generationTimeSeconds)))

\* C25: for all valid inputs each burst limit is at least its steady-state
\* limit: runTPSBurst >= runTPS and statusTPSBurst >= statusTPS.
C25_BurstAtLeastSteady ==
    Planned =>
        /\ FLeq(Limits.runTPS, Limits.runTPSBurst)
        /\ FLeq(Limits.statusTPS, Limits.statusTPSBurst)

----------------------------------------------------------------------------
(* Properties of the viewer-request function *)

Answered == vpc = "answered"

Forwarded == vpc = "forwarded"

DevStage == siteProps.stageName = "dev"

\* the Authorization header of the configured credentials
BasicCredentials ==
    IF "devWebsiteUsername" \notin DOMAIN siteProps
    THEN <<"B", "a", "s", "i", "c", " ", "d", "W", "5", "k", "Z", "W", "Z", "p", "b", "m", "V", "k", "O", "n", "V", "u", "Z", "G", "V", "m", "a", "W", "5", "l", "Z", "A", "=", "=">>
    ELSE IF siteProps.devWebsiteUsername = <<"a">>
         THEN <<"B", "a", "s", "i", "c", " ", "Y", "T", "p", "i">>
    ELSE IF siteProps.devWebsitePassword = <<"c">>
         THEN <<"B", "a", "s", "i", "c", " ", "Y", "W", "I", "6", "Y", "w", "=", "=">>
    ELSE <<"B", "a", "s", "i", "c", " ", "Y", "W", "I", "6", "Y", "2", "Q", "=">>

SentAuthorization == "authorization" \in DOMAIN viewerRequest.headers

CredentialsSent ==
    /\ SentAuthorization
    /\ viewerRequest.headers.authorization.value = BasicCredentials

Is401 ==
    /\ Answered
    /\ viewerResult.statusCode = 401
    /\ viewerResult.headers["www-authenticate"].value = "Basic"

\* the folder URIs: neither the root nor a URI with a '.'
FolderUri(uri) == uri # <<"/">> /\ \A i \in DOMAIN uri : uri[i] # "."

WithIndexDocument(uri) ==
    (IF uri[Len(uri)] = "/" THEN uri ELSE Append(uri, "/")) \o <<"i", "n", "d", "e", "x", ".", "h", "t", "m", "l">>

Rewritten(uri) == IF FolderUri(uri) THEN WithIndexDocument(uri) ELSE uri

\* C28: in the dev stage a request without the Authorization header of the
\* configured credentials is answered 401 with www-authenticate: Basic and
\* not forwarded, and a request is rewritten and forwarded only with the
\* matching credentials; in the other stages every request is forwarded,
\* changed by the rewrite of its URI only
C28_BasicAuthInDevOnly ==
    (Answered \/ Forwarded) =>
        IF DevStage
        THEN /\ ~CredentialsSent => Is401
             /\ Forwarded => CredentialsSent
        ELSE /\ Forwarded
             /\ viewerResult = [viewerRequest EXCEPT !.uri = Rewritten(viewerRequest.uri)]

C28_Witness ==
    /\ DevStage
    /\ Is401
    /\ SentAuthorization
    /\ FolderUri(viewerRequest.uri)

\* C29: the root and the URIs with a '.' are forwarded unchanged, every
\* other URI is forwarded with a '/' appended where it lacks one and then
\* index.html; rewriting the forwarded URI again changes nothing; the
\* functions of the dev and of the other stages rewrite alike
C29_RewriteFolderUris ==
    Forwarded =>
        /\ ~FolderUri(viewerRequest.uri) => viewerResult.uri = viewerRequest.uri
        /\ FolderUri(viewerRequest.uri) =>
              viewerResult.uri = WithIndexDocument(viewerRequest.uri)
        /\ RewriteDev(viewerResult.uri) = viewerResult.uri
        /\ RewriteNonDev(viewerResult.uri) = viewerResult.uri
        /\ RewriteDev(viewerRequest.uri) = RewriteNonDev(viewerRequest.uri)

C29_Witness ==
    /\ Forwarded
    /\ DevStage
    /\ viewerRequest.uri = <<"/", "a">>
    /\ viewerResult.uri = <<"/", "a", "/", "i", "n", "d", "e", "x", ".", "h", "t", "m", "l">>

----------------------------------------------------------------------------
(* Properties of the deployment script *)

Exited == dpc = "exited"

SucceededWith(command) ==
    \E i \in DOMAIN commands : commands[i].command = command /\ commands[i].status = 0

CdkDeploySucceeded ==
    \E i \in DOMAIN commands :
        /\ commands[i].command = CdkDeployCommand(invocation.stage)
        /\ commands[i].status = 0

EndsWithSucceeded ==
    /\ Exited
    /\ Len(terminal) > 0
    /\ terminal[Len(terminal)] = EchoWith(SucceededMessage, invocation.stage)

\* the position of the sync among the commands run, 0 where it did not run
SyncPosition ==
    IF \E i \in DOMAIN commands : commands[i].command = "aws s3 sync"
    THEN CHOOSE i \in DOMAIN commands : commands[i].command = "aws s3 sync"
    ELSE 0

ChecksPassedBefore(k) ==
    \A command \in {"git clone", "npm install", "npm run webpack-build",
                    "[ -d dist ] && [ -n $(ls -A dist) ]"} :
        \E i \in 1..(k - 1) : commands[i].command = command /\ commands[i].status = 0

\* C30: a run ends with the message 'CDK deployment and S3 sync succeeded
\* for stage <stage>' only where cdk deploy exited with status 0 and the
\* sync of the built frontend to the bucket ran and exited with status 0;
\* and the sync runs only after the clone, npm install, the build and the
\* check of dist all passed
C30_SucceededMessageOnlyOnSuccess ==
    /\ EndsWithSucceeded => CdkDeploySucceeded /\ SucceededWith("aws s3 sync")
    /\ SyncPosition > 0 => ChecksPassedBefore(SyncPosition)

====
